---- MODULE Spec2Model ----
(***************************************************************************)
(* A model of the conversational agent: the tool registry                  *)
(* (agent/tools/base.py), the built-in tools (agent/tools/common.py) and   *)
(* the orchestration loop Agent.chat (agent/core/agent.py), the selection  *)
(* of the provider client and its image processing (agent/llm/manager.py,  *)
(* agent/config/settings.py) and the memory store                          *)
(* (agent/memory/manager.py).                                              *)
(*                                                                         *)
(* Python values are modelled as follows.                                  *)
(*   - str            a TLA+ string                                        *)
(*   - None           the string NoneValue, which no input string equals   *)
(*   - a JSON / kwargs value   a record [t |-> type tag, v |-> text]       *)
(*   - a dict         a function from key strings to such values           *)
(*   - a list of dicts (tool_calls)   a sequence of records; the falsy     *)
(*     values None and [] are both the empty sequence (the code never      *)
(*     stores an empty list, and only tests truthiness)                    *)
(***************************************************************************)
EXTENDS Integers, Sequences, FiniteSets, TLC

VARIABLES
    tools,            \* ToolRegistry._tools: tool name -> tool implementation
    call_name,        \* a direct call of ToolRegistry.execute: the name argument
    call_args,        \* ... its arguments argument
    call_result,      \* ... its outcome (returned string or escaped exception)
    call_stage,       \* ... how far it got: none, lookup, parse, call
    executing,        \* the calls of ToolRegistry.execute that wait in
                      \* `await tool.execute(**kwargs)`: for each its name and
                      \* arguments, the tool it looked up and the await it is at
    got_name,         \* a direct call of ToolRegistry.get: the name argument
    got_tool,         \* ... the tool it returned (NoneValue: None)
    registry_calls,   \* history: the calls of register, unregister and clear
    system_prompt,    \* Agent.system_prompt
    history_limit,    \* Agent.history_limit
    enable_multimodal,\* Agent.enable_multimodal
    llm_provider,     \* Agent.llm_provider (NoneValue: the default provider)
    llm_configs,      \* settings.llm_configs: provider -> its configuration
    clients,          \* LLMManager._clients: provider -> the client cached
    messages,         \* Agent.context.messages
    chat_text,        \* chat: the user_input argument of the call, as tokens
    chat_image,       \* chat: the image_path argument of the call
    pc,               \* where Agent.chat stands: idle, request, provider, tools
    user_input,       \* chat: user_input after the image marker is parsed
    memory_context,   \* chat: memory_context
    sent,             \* chat: messages, the list handed to LLMManager.chat
    response,         \* chat: response
    iteration,        \* chat: iteration
    tool_index,       \* _handle_tool_calls: index of the call about to run
    tool_messages,    \* _handle_tool_calls: tool_messages
    reply,            \* the value chat returned (NoneValue while running)
    outcome,          \* the last turn: none, running, abandoned (reset while
                      \* suspended), returned, raised; reset after a reset
    error,            \* the message of the exception that left chat, if any
    base,             \* history: length of the conversation when the turn began
    responses,        \* history: the provider responses of the turn, in order
    requests,         \* history: number of provider calls of the turn
    events,           \* history: notifications and executions of the turn
    memories,         \* LocalFileStorage._cache: the items, in insertion order
    id_counter,       \* MemoryManager._id_counter
    memory_file,      \* the items in memories.json, in the order of the file
    clock,            \* the second datetime.now() is in
    generated,        \* history: the ids _generate_id made since construction
    peer_memories,    \* the _cache of a second store opened on the same path
    peer_id_counter,  \* the _id_counter of the manager of that store
    running,          \* the Agent whose fields the variables above hold
    suspended,        \* the other Agents of the process: the fields of each,
                      \* as they stand while its task waits
    constructed,      \* history: the providers LLMManager._create_client made
                      \* a client for, in order
    enable_tools,     \* Agent.enable_tools
    tools_arg,        \* chat: tools, the declarations _get_tools returned
    sent_tools,       \* the tools argument of the LLMManager.chat call in flight
    recall_query,     \* a call of MemoryManager.recall: the query, as words
    recall_top_k,     \* ... its top_k
    recall_result,    \* ... the list it returned
    format_query,     \* a call of format_memories_for_context: the query
    format_result,    \* ... the string it returned
    extract_info,     \* a call of extract_and_save_memory: extracted_info
    extract_result,   \* ... the list it returned
    get_id,           \* a call of LocalFileStorage.get: the id asked for
    get_result        \* ... the item returned, in a list; None is the empty list

registry_vars == <<tools, call_name, call_args, call_result, call_stage, executing,
                   got_name, got_tool, registry_calls>>
config_vars == <<system_prompt, history_limit, enable_multimodal, llm_provider,
                 llm_configs>>
chat_args == <<chat_text, chat_image>>
agent_vars == <<config_vars, clients, messages, chat_args, pc, user_input,
                memory_context, sent, response, iteration, tool_index,
                tool_messages, reply, outcome, error, base, responses, requests,
                events>>
store_vars == <<memories, id_counter>>
peer_vars == <<peer_memories, peer_id_counter, running, suspended, constructed,
               enable_tools, tools_arg, sent_tools>>
process_vars == <<memory_file, clock, generated>>
recall_vars == <<recall_query, recall_top_k, recall_result>>
format_vars == <<format_query, format_result>>
extract_vars == <<extract_info, extract_result>>
get_vars == <<get_id, get_result>>
memory_vars == <<store_vars, peer_vars, process_vars, recall_vars, format_vars,
                 extract_vars, get_vars>>
vars == <<registry_vars, agent_vars, memory_vars>>

NoneValue == "<None>"

\* Python truthiness of an Optional[str]
Truthy(s) == s # NoneValue /\ s # ""

\* Python's `a or b` on Optional[str]
OrElse(a, b) == IF Truthy(a) THEN a ELSE b

(***************************************************************************)
(* The fixed texts of the program.  The source texts are Chinese; a string *)
(* literal of this module is restricted to what its lexer reads, so every  *)
(* text below is an ASCII rendering of the source text named beside it.    *)
(***************************************************************************)
CalcResultPrefix == "calc result: "          \* 计算结果:
CalcErrorPrefix == "calc error: "            \* 计算错误:
CurrentTimePrefix == "current time: "        \* 当前时间:
CurrentDatePrefix == "current date: "        \* 当前日期:
TodayIsPrefix == "today is: "                \* 今天是:
UnknownActionPrefix == "unknown action: "    \* 未知操作:
NoToolPrefix == "error: tool '"              \* 错误: 工具 '
NoToolSuffix == "' does not exist"           \* ' 不存在
ParseFailedPrefix == "error: argument parse failed - "   \* 错误: 参数解析失败 -
ExecFailedPrefix == "error: tool execution failed - "    \* 错误: 工具执行失败 -
FallbackReply == "sorry, I cannot generate a reply."     \* 抱歉，我无法生成回复。
NoDocumentsText == "no documents to search."             \* 没有可搜索的文档。...
ImageSearchPrefix == "image search results (keyword: "   \* 图片搜索结果 (关键词:
ImageSearchSuffix == "): simulated result"               \* ):  【模拟结果】 ...
GenerationNotConfigured == "image generation is not configured"  \* 图片生成功能未配置 ...
GenerationFailedPrefix == "image generation failed: "    \* 图片生成失败:
GenerationErrorPrefix == "image generation error: "      \* 图片生成出错:
GenerationDonePrefix == "image generated, prompt: "      \* 图片生成成功！ 提示词:
NoImageFilePrefix == "image file does not exist: "       \* 图片文件不存在:
AnalysisPrefix == "image analysis request received, path: "   \* 图片分析请求已接收 图片路径:
DefaultQuestion == "describe this image"                 \* 请描述这张图片

(***************************************************************************)
(* JSON texts and json.loads                                               *)
(***************************************************************************)
Str(s) == [t |-> "str", v |-> s]
Num(s) == [t |-> "int", v |-> s]

EmptyDict == [k \in {} |-> Str("")]

J_Calc22 == "{\"expression\": \"2+2\"}"
J_CalcDiv0 == "{\"expression\": \"1/0\"}"
J_CalcSyntax == "{\"expression\": \"2+\"}"
J_CalcInt == "{\"expression\": 5}"
J_Truncated == "{\"expression\": "
J_Empty == ""
J_List == "[1, 2]"
J_Null == "null"
J_EmptyObj == "{}"
J_Now == "{\"action\": \"now\"}"
J_Date == "{\"action\": \"date\"}"
J_Time == "{\"action\": \"time\"}"
J_Weekday == "{\"action\": \"weekday\"}"
J_Noop == "{\"action\": \"noop\"}"
J_NowFmtInt == "{\"action\": \"now\", \"format\": 5}"
J_Brace == "{"
J_CheckBrace == "{\"text\": \"{\"}"
J_CheckList == "{\"text\": \"[1, 2]\"}"
J_CheckInt == "{\"text\": 5}"
J_Query == "{\"query\": \"tea\"}"
J_Prompt == "{\"prompt\": \"a cat\"}"
J_Image == "{\"image_path\": \"/tmp/cat.png\"}"
J_ImageGone == "{\"image_path\": \"/tmp/none.png\"}"

JsonTexts == {J_Calc22, J_CalcDiv0, J_CalcSyntax, J_CalcInt, J_Truncated,
              J_Empty, J_List, J_Null, J_EmptyObj, J_Now, J_Date, J_Time,
              J_Weekday, J_Noop, J_NowFmtInt, J_Brace, J_CheckBrace,
              J_CheckList, J_CheckInt, J_Query, J_Prompt, J_Image, J_ImageGone}

\* json.loads(s): the parsed value, or JSONDecodeError with its message
JsonLoads(s) ==
    CASE s = J_Calc22 ->
            [ok |-> TRUE, type |-> "dict", value |-> [expression |-> Str("2+2")]]
      [] s = J_CalcDiv0 ->
            [ok |-> TRUE, type |-> "dict", value |-> [expression |-> Str("1/0")]]
      [] s = J_CalcSyntax ->
            [ok |-> TRUE, type |-> "dict", value |-> [expression |-> Str("2+")]]
      [] s = J_CalcInt ->
            [ok |-> TRUE, type |-> "dict", value |-> [expression |-> Num("5")]]
      [] s = J_EmptyObj ->
            [ok |-> TRUE, type |-> "dict", value |-> EmptyDict]
      [] s = J_Now ->
            [ok |-> TRUE, type |-> "dict", value |-> [action |-> Str("now")]]
      [] s = J_Date ->
            [ok |-> TRUE, type |-> "dict", value |-> [action |-> Str("date")]]
      [] s = J_Time ->
            [ok |-> TRUE, type |-> "dict", value |-> [action |-> Str("time")]]
      [] s = J_Weekday ->
            [ok |-> TRUE, type |-> "dict", value |-> [action |-> Str("weekday")]]
      [] s = J_Noop ->
            [ok |-> TRUE, type |-> "dict", value |-> [action |-> Str("noop")]]
      [] s = J_NowFmtInt ->
            [ok |-> TRUE, type |-> "dict",
             value |-> [action |-> Str("now"), format |-> Num("5")]]
      [] s = J_CheckBrace ->
            [ok |-> TRUE, type |-> "dict", value |-> [text |-> Str(J_Brace)]]
      [] s = J_CheckList ->
            [ok |-> TRUE, type |-> "dict", value |-> [text |-> Str(J_List)]]
      [] s = J_CheckInt ->
            [ok |-> TRUE, type |-> "dict", value |-> [text |-> Num("5")]]
      [] s = J_Query ->
            [ok |-> TRUE, type |-> "dict", value |-> [query |-> Str("tea")]]
      [] s = J_Prompt ->
            [ok |-> TRUE, type |-> "dict", value |-> [prompt |-> Str("a cat")]]
      [] s = J_Image ->
            [ok |-> TRUE, type |-> "dict", value |-> [image_path |-> Str("/tmp/cat.png")]]
      [] s = J_ImageGone ->
            [ok |-> TRUE, type |-> "dict", value |-> [image_path |-> Str("/tmp/none.png")]]
      [] s = J_List ->
            [ok |-> TRUE, type |-> "list", value |-> EmptyDict]
      [] s = J_Null ->
            [ok |-> TRUE, type |-> "NoneType", value |-> EmptyDict]
      [] s = J_Truncated ->
            [ok |-> FALSE, msg |-> "Expecting value: line 1 column 16 (char 15)"]
      [] s = J_Brace ->
            [ok |-> FALSE,
             msg |-> "Expecting property name enclosed in double quotes: line 1 column 2 (char 1)"]
      [] OTHER ->
            [ok |-> FALSE, msg |-> "Expecting value: line 1 column 1 (char 0)"]

(***************************************************************************)
(* Outcomes of a Python call: a returned value or a raised exception       *)
(***************************************************************************)
Return(s) == [kind |-> "return", value |-> s]
Raise(type, msg) == [kind |-> "raise", value |-> msg, exc |-> type]

(***************************************************************************)
(* The built-in tools                                                      *)
(***************************************************************************)
\* the wall clock read by DateTimeTool, rendered with the default formats
NowDateTime == "2026-10-29 21:11:48"
NowDate == "2026-10-29"
NowTime == "21:11:48"
NowWeekday == "Thursday"   \* weekdays[now.weekday()], source text 星期四

\* eval(expression, {"__builtins__": {}}, safe_dict) and its str()
Eval(expression) ==
    CASE expression = "2+2" -> Return("4")
      [] expression = "1/0" -> Raise("ZeroDivisionError", "division by zero")
      [] OTHER -> Raise("SyntaxError", "invalid syntax (<string>, line 1)")

\* CalculatorTool.execute(expression, **kwargs), keyword arguments bound
CalculatorBody(kwargs) ==
    LET expression == kwargs["expression"]
        result == IF expression.t = "str"
                  THEN Eval(expression.v)
                  ELSE Raise("TypeError",
                             "eval() arg 1 must be a string, bytes or code object")
    IN IF result.kind = "return"
       THEN Return(CalcResultPrefix \o expression.v \o " = " \o result.value)
       ELSE Return(CalcErrorPrefix \o result.value)

CalculatorExecute(kwargs) ==
    IF "expression" \notin DOMAIN kwargs
    THEN Raise("TypeError",
               "CalculatorTool.execute() missing 1 required positional argument: 'expression'")
    ELSE CalculatorBody(kwargs)

\* now.strftime(fmt)
Strftime(fmt, default_text) ==
    IF fmt.t = "str" THEN Return(default_text)
    ELSE Raise("TypeError", "strftime() argument 1 must be str, not int")

\* `format or default`: an absent, None or empty format gives the default
FormatOr(kwargs) ==
    IF "format" \in DOMAIN kwargs /\ kwargs["format"].v \notin {"", "0"}
    THEN kwargs["format"]
    ELSE Str("default")

DateTimeBody(kwargs) ==
    LET action == kwargs["action"]
        fmt == FormatOr(kwargs)
        timed(prefix, text) ==
            LET r == Strftime(fmt, text)
            IN IF r.kind = "return" THEN Return(prefix \o r.value) ELSE r
    IN CASE action = Str("now") -> timed(CurrentTimePrefix, NowDateTime)
         [] action = Str("date") -> timed(CurrentDatePrefix, NowDate)
         [] action = Str("time") -> timed(CurrentTimePrefix, NowTime)
         [] action = Str("weekday") -> Return(TodayIsPrefix \o NowWeekday)
         [] OTHER -> Return(UnknownActionPrefix \o action.v)

DateTimeExecute(kwargs) ==
    IF "action" \notin DOMAIN kwargs
    THEN Raise("TypeError",
               "DateTimeTool.execute() missing 1 required positional argument: 'action'")
    ELSE DateTimeBody(kwargs)

\* a function given to the decorator `tool` under the name check_json:
\*     def check_json(text): json.loads(text); return "valid JSON"
CheckJsonFunc(kwargs) ==
    LET unexpected == DOMAIN kwargs \ {"text"}
        first == IF "action" \in unexpected THEN "action"
                 ELSE CHOOSE k \in unexpected : TRUE
    IN IF unexpected # {}
       THEN Raise("TypeError",
                  "check_json() got an unexpected keyword argument '" \o first \o "'")
       ELSE IF "text" \notin DOMAIN kwargs
       THEN Raise("TypeError",
                  "check_json() missing 1 required positional argument: 'text'")
       ELSE IF kwargs["text"].t # "str"
       THEN Raise("TypeError",
                  "the JSON object must be str, bytes or bytearray, not int")
       ELSE IF JsonLoads(kwargs["text"].v).ok
       THEN Return("valid JSON")
       ELSE Raise("JSONDecodeError", JsonLoads(kwargs["text"].v).msg)

\* FunctionTool.execute(**kwargs): str(func(**kwargs))
FunctionToolExecute(kwargs) == CheckJsonFunc(kwargs)

\* the files os.path.exists finds
ExistingFiles == {"/tmp/cat.png"}

\* LocalDocumentSearchTool.execute(query, top_k=3, **kwargs) of a tool whose
\* docs_path held no document when it was made: _documents is empty
LocalDocumentSearchExecute(kwargs) ==
    IF "query" \notin DOMAIN kwargs
    THEN Raise("TypeError",
               "LocalDocumentSearchTool.execute() missing 1 required positional argument: 'query'")
    ELSE Return(NoDocumentsText)

\* ImageSearchTool.execute(query, count=3, **kwargs): a fixed text around
\* the query
ImageSearchExecute(kwargs) ==
    IF "query" \notin DOMAIN kwargs
    THEN Raise("TypeError",
               "ImageSearchTool.execute() missing 1 required positional argument: 'query'")
    ELSE Return(ImageSearchPrefix \o kwargs["query"].v \o ImageSearchSuffix)

\* what the image service does with the request of an ImageGenerationTool
\* that has an api key: the connection fails; it answers with an error
\* message; it answers with the url of an image, which is then downloaded
\* or not
ImageServices == {"unreachable", "refuses", "delivers", "no download"}

\* an ImageGenerationTool made where DASHSCOPE_API_KEY or QWEN_API_KEY is
\* set, together with the image service it talks to
KeyedGeneration(service) == "ImageGenerationTool, api_key, service " \o service

KeyedGenerationTools == {KeyedGeneration(service) : service \in ImageServices}

\* ImageGenerationTool.execute(prompt, style="auto", **kwargs).  Without an
\* api key the text about the configuration is returned.  With one, every
\* exception of the request is caught and its message returned; an answer
\* that is not a 200 with an output gives the failure text; after a 200
\* the image is downloaded and the success text returned, and when the
\* download is not answered with 200 the method ends without a return
\* statement: it returns None
ImageGenerationExecute(tool, kwargs) ==
    LET style == IF "style" \in DOMAIN kwargs THEN kwargs["style"].v ELSE "auto"
    IN IF "prompt" \notin DOMAIN kwargs
       THEN Raise("TypeError",
                  "ImageGenerationTool.execute() missing 1 required positional argument: 'prompt'")
       ELSE CASE tool = "ImageGenerationTool" -> Return(GenerationNotConfigured)
              [] tool = KeyedGeneration("unreachable") ->
                    Return(GenerationErrorPrefix \o "All connection attempts failed")
              [] tool = KeyedGeneration("refuses") ->
                    Return(GenerationFailedPrefix \o "quota exceeded")
              [] tool = KeyedGeneration("delivers") ->
                    Return(GenerationDonePrefix \o kwargs["prompt"].v \o ", style: " \o style)
              [] tool = KeyedGeneration("no download") -> Return(NoneValue)

\* ImageAnalysisTool.execute(image_path, question=..., **kwargs)
ImageAnalysisExecute(kwargs) ==
    LET question == IF "question" \in DOMAIN kwargs THEN kwargs["question"].v
                    ELSE DefaultQuestion
    IN IF "image_path" \notin DOMAIN kwargs
       THEN Raise("TypeError",
                  "ImageAnalysisTool.execute() missing 1 required positional argument: 'image_path'")
       ELSE IF kwargs["image_path"].v \notin ExistingFiles
       THEN Return(NoImageFilePrefix \o kwargs["image_path"].v)
       ELSE Return(AnalysisPrefix \o kwargs["image_path"].v \o ", question: " \o question)

\* the tools the constructor of an Agent makes, where neither
\* DASHSCOPE_API_KEY nor QWEN_API_KEY is set
SearchTools == {"LocalDocumentSearchTool"}
MultimodalTools == {"ImageSearchTool", "ImageGenerationTool", "ImageAnalysisTool"}

\* the tools other callers of the registry register
ToolClasses == {"CalculatorTool", "DateTimeTool", "FunctionTool",
                KeyedGeneration("no download")}

\* a second tool of the decorator, declared as @tool(name="calculator", ...)
\* on the same function: a FunctionTool that carries the calculator's name
FunctionCalculator == "FunctionCalculator"

\* tool.name
ToolName(tool) ==
    CASE tool = "CalculatorTool" -> "calculator"
      [] tool = "DateTimeTool" -> "datetime"
      [] tool = "FunctionTool" -> "check_json"
      [] tool = FunctionCalculator -> "calculator"
      [] tool = "LocalDocumentSearchTool" -> "search_documents"
      [] tool = "ImageSearchTool" -> "search_images"
      [] tool = "ImageAnalysisTool" -> "analyze_image"
      [] tool = "ImageGenerationTool" \/ tool \in KeyedGenerationTools -> "generate_image"

\* the qualified name of the class, as a TypeError of the call spells it
QualName(tool) ==
    CASE tool \in {"FunctionTool", FunctionCalculator} ->
            "agent.tools.base.tool.<locals>.decorator.<locals>.FunctionTool"
      [] tool \in SearchTools -> "agent.tools.search." \o tool
      [] tool \in MultimodalTools -> "agent.tools.multimodal." \o tool
      [] tool \in KeyedGenerationTools -> "agent.tools.multimodal.ImageGenerationTool"
      [] OTHER -> "agent.tools.common." \o tool

\* tool.execute(**kwargs) where kwargs is a mapping
ToolExecute(tool, kwargs) ==
    CASE tool = "CalculatorTool" -> CalculatorExecute(kwargs)
      [] tool = "DateTimeTool" -> DateTimeExecute(kwargs)
      [] tool = "FunctionTool" -> FunctionToolExecute(kwargs)
      [] tool = FunctionCalculator -> FunctionToolExecute(kwargs)
      [] tool = "LocalDocumentSearchTool" -> LocalDocumentSearchExecute(kwargs)
      [] tool = "ImageSearchTool" -> ImageSearchExecute(kwargs)
      [] tool = "ImageAnalysisTool" -> ImageAnalysisExecute(kwargs)
      [] tool = "ImageGenerationTool" \/ tool \in KeyedGenerationTools ->
            ImageGenerationExecute(tool, kwargs)

\* tool.execute(**kwargs) for any parsed value: ** needs a mapping
ToolExecuteStar(tool, type, kwargs) ==
    IF type = "dict" THEN ToolExecute(tool, kwargs)
    ELSE Raise("TypeError",
               QualName(tool)
                   \o ".execute() argument after ** must be a mapping, not " \o type)

(***************************************************************************)
(* ToolRegistry                                                            *)
(***************************************************************************)
EmptyRegistry == [n \in {} |-> "CalculatorTool"]

\* a register that keeps the tool a name already has (dict.setdefault)
RegisterKeepsFirst(reg, tool) ==
    [n \in DOMAIN reg \cup {ToolName(tool)} |->
        IF n \in DOMAIN reg THEN reg[n] ELSE tool]

\* ToolRegistry.register(tool) on the registry reg
Register(reg, tool) ==
    [n \in DOMAIN reg \cup {ToolName(tool)} |->
        IF n = ToolName(tool) THEN tool ELSE reg[n]]

\* ToolRegistry.unregister(name)
Unregister(reg, name) == [n \in DOMAIN reg \ {name} |-> reg[n]]

\* ToolRegistry.get(name): dict.get, None for a name that is not a key
Get(reg, name) == IF name \in DOMAIN reg THEN reg[name] ELSE NoneValue

\* one call of register, unregister or clear, as the history records it
RegisterCall(tool) == [op |-> "register", name |-> ToolName(tool), tool |-> tool]
UnregisterCall(name) == [op |-> "unregister", name |-> name, tool |-> NoneValue]
ClearCall == [op |-> "clear", name |-> NoneValue, tool |-> NoneValue]

\* register_common_tools()
RegisterCommonTools(reg) == Register(Register(reg, "CalculatorTool"), "DateTimeTool")

\* BaseTool.to_openai_format(): the declaration of a tool, its description
\* and parameters being those of its class; an ImageGenerationTool declares
\* the same with and without an api key
ToOpenAIFormat(tool) ==
    [type |-> "function",
     function |-> [name |-> ToolName(tool),
                   declared_by |-> IF tool \in KeyedGenerationTools
                                   THEN "ImageGenerationTool" ELSE tool]]

\* ToolRegistry.get_all_definitions()
GetAllDefinitions(reg) == {ToOpenAIFormat(reg[n]) : n \in DOMAIN reg}

\* no tools argument: None, which the clients treat as an empty list
NoTools == {}

\* a _get_tools that ignores enable_tools
GetToolsAlways(enabled, reg) == GetAllDefinitions(reg)

\* Agent._get_tools()
GetTools(enabled, reg) == IF ~enabled THEN NoTools ELSE GetAllDefinitions(reg)

\* the registry calls register_common_tools() makes
CommonToolsCalls == <<RegisterCall("CalculatorTool"), RegisterCall("DateTimeTool")>>

\* create_search_tool(docs_path)
CreateSearchTool(reg) == Register(reg, "LocalDocumentSearchTool")

\* create_multimodal_tools(enable_search=True, enable_generation=True)
CreateMultimodalTools(reg) ==
    Register(Register(Register(reg, "ImageSearchTool"), "ImageGenerationTool"),
             "ImageAnalysisTool")

\* the tools part of Agent.__init__ on the registry of the process: nothing
\* without enable_tools; the search tool and the common tools with it; the
\* multimodal tools as well with enable_multimodal
ConstructorTools(reg, enabled, multimodal) ==
    IF ~enabled THEN reg
    ELSE IF ~multimodal THEN RegisterCommonTools(CreateSearchTool(reg))
    ELSE CreateMultimodalTools(RegisterCommonTools(CreateSearchTool(reg)))

\* the registry calls Agent.__init__ makes
ConstructorCalls(enabled, multimodal) ==
    IF ~enabled THEN <<>>
    ELSE <<RegisterCall("LocalDocumentSearchTool")>> \o CommonToolsCalls
             \o (IF multimodal
                 THEN <<RegisterCall("ImageSearchTool"), RegisterCall("ImageGenerationTool"),
                        RegisterCall("ImageAnalysisTool")>>
                 ELSE <<>>)

\* an arguments value: a JSON text (str) or an already structured mapping
StrArg(s) == [kind |-> "str", text |-> s, map |-> EmptyDict]
MapArg(m) == [kind |-> "map", text |-> "", map |-> m]

\* the try block of ToolRegistry.execute: parse if needed, then dispatch
ExecuteTry(tool, arguments) ==
    IF arguments.kind = "str"
    THEN LET parsed == JsonLoads(arguments.text)
         IN IF parsed.ok
            THEN ToolExecuteStar(tool, parsed.type, parsed.value)
            ELSE Raise("JSONDecodeError", parsed.msg)
    ELSE ToolExecute(tool, arguments.map)

\* the except clauses of ToolRegistry.execute
ExecuteExcept(r) ==
    CASE r.kind = "return" -> r
      [] r.exc = "JSONDecodeError" -> Return(ParseFailedPrefix \o r.value)
      [] OTHER -> Return(ExecFailedPrefix \o r.value)

\* the statement of ToolRegistry.execute that ended the call: the lookup of
\* the tool, json.loads, or the awaited tool.execute(**kwargs)
ExecuteStage(reg, name, arguments) ==
    IF name \notin DOMAIN reg THEN "lookup"
    ELSE IF arguments.kind = "str" /\ ~JsonLoads(arguments.text).ok THEN "parse"
    ELSE "call"

\* an execute that lets the lookup of an unknown tool raise
ExecuteUnknownRaises(reg, name, arguments) ==
    IF name \notin DOMAIN reg
    THEN Raise("KeyError", "'" \o name \o "'")
    ELSE ExecuteExcept(ExecuteTry(reg[name], arguments))

\* ToolRegistry.execute(name, arguments)
Execute(reg, name, arguments) ==
    IF name \notin DOMAIN reg
    THEN Return(NoToolPrefix \o name \o NoToolSuffix)
    ELSE ExecuteExcept(ExecuteTry(reg[name], arguments))

\* the awaits at which tool.execute(**kwargs) gives up the event loop, in
\* order.  Only an ImageGenerationTool with an api key has any: the post of
\* the request and, after an answer that carries an image, its download;
\* no call whose arguments do not parse or do not bind gets there
Awaits(tool, arguments) ==
    IF tool \notin KeyedGenerationTools \/ ExecuteTry(tool, arguments).kind = "raise"
    THEN <<>>
    ELSE IF tool \in {KeyedGeneration("delivers"), KeyedGeneration("no download")}
    THEN <<"post", "download">>
    ELSE <<"post">>

\* the calls of ToolRegistry.execute that may wait at a time
MaxExecuting == 1

(***************************************************************************)
(* Messages and the conversation                                           *)
(***************************************************************************)
\* a content value with its Python type: a str, or a list of parts
StrContent(s) == [type |-> "str", value |-> s]
ListContent(parts) == [type |-> "list", value |-> parts]

\* Message(role, content, name, tool_call_id, tool_calls); content_type is
\* the Python type of content, which isinstance tests
TypedMessage(role, content, name, tool_call_id, tool_calls) ==
    [role |-> role, content |-> content.value, content_type |-> content.type,
     name |-> name, tool_call_id |-> tool_call_id, tool_calls |-> tool_calls]

\* a message whose content is a str
Message(role, content, name, tool_call_id, tool_calls) ==
    TypedMessage(role, StrContent(content), name, tool_call_id, tool_calls)

SystemMessage(prompt) == Message("system", prompt, NoneValue, NoneValue, <<>>)
UserMessage(content) == Message("user", content, NoneValue, NoneValue, <<>>)

\* the wire form of one tool call in Message.to_dict
ToolCallDict(tc) ==
    [id |-> tc.id, type |-> "function",
     function |-> [name |-> tc.name, arguments |-> tc.arguments]]

\* Message.to_dict: a key is present only when its value is truthy
ToDict(m) ==
    [keys |-> {"role", "content"}
                \cup (IF Truthy(m.name) THEN {"name"} ELSE {})
                \cup (IF Truthy(m.tool_call_id) THEN {"tool_call_id"} ELSE {})
                \cup (IF m.tool_calls # <<>> THEN {"tool_calls"} ELSE {}),
     role |-> m.role,
     content |-> m.content,
     content_type |-> m.content_type,
     name |-> IF Truthy(m.name) THEN m.name ELSE NoneValue,
     tool_call_id |-> IF Truthy(m.tool_call_id) THEN m.tool_call_id ELSE NoneValue,
     tool_calls |-> [i \in 1..Len(m.tool_calls) |-> ToolCallDict(m.tool_calls[i])]]

\* the Python slice xs[start:] for an integer start of either sign
SliceFrom(xs, start) ==
    LET n == Len(xs)
        from == IF start < 0
                THEN (IF n + start < 0 THEN 0 ELSE n + start)
                ELSE (IF start > n THEN n ELSE start)
    IN SubSeq(xs, from + 1, n)

\* ConversationContext.get_recent_messages(n)
GetRecentMessages(msgs, n) ==
    IF Len(msgs) > n THEN SliceFrom(msgs, 0 - n) ELSE msgs

\* the memory context is appended whether it is empty or not
SystemContentAlwaysAppends(prompt, memctx) == prompt \o "\n\n" \o memctx

\* the system message _build_messages puts first
SystemContent(prompt, memctx) ==
    IF Truthy(memctx) THEN prompt \o "\n\n" \o memctx ELSE prompt

SystemDict(prompt, memctx) ==
    [keys |-> {"role", "content"}, role |-> "system",
     content |-> SystemContent(prompt, memctx), content_type |-> "str",
     name |-> NoneValue,
     tool_call_id |-> NoneValue, tool_calls |-> <<>>]

\* the recent messages counted without the extra one that is dropped
RecentHistoryNoExtra(msgs, limit) == SliceFrom(GetRecentMessages(msgs, limit), 1)

\* the history _build_messages keeps: the recent messages after the first
RecentHistory(msgs, limit) == SliceFrom(GetRecentMessages(msgs, limit + 1), 1)

\* Agent._build_messages(memory_context)
BuildMessages(prompt, memctx, msgs, limit) ==
    LET recent == RecentHistory(msgs, limit)
    IN <<SystemDict(prompt, memctx)>>
           \o [i \in 1..Len(recent) |-> ToDict(recent[i])]

\* a reset that clears and forgets the system message
ResetConversationClearOnly(msgs, prompt) == SubSeq(msgs, 1, 0)

\* Agent.reset_conversation: context.clear() then add the system message
ResetConversation(msgs, prompt) ==
    Append(SubSeq(msgs, 1, 0), SystemMessage(prompt))

(***************************************************************************)
(* The image marker and the content of the user message                    *)
(*                                                                         *)
(* A user text is a sequence of tokens; its string is their concatenation. *)
(* The tokens the pattern of _parse_image_path tells apart are the         *)
(* brackets, the word "image:" and the blank; any other token stands for a *)
(* run of characters holding none of these.                                *)
(***************************************************************************)
RECURSIVE Join(_)
\* the string a token sequence spells
Join(toks) == IF toks = <<>> THEN "" ELSE Head(toks) \o Join(Tail(toks))

OpenBrackets == {"[", "<"}       \* the pattern's [\[<]
CloseBrackets == {"]", ">"}      \* the pattern's [\]>]
Whitespace == {" ", "\n"}

\* the index of the first closing bracket at or after i, 0 when there is none
RECURSIVE FirstClose(_, _)
FirstClose(toks, i) ==
    IF i > Len(toks) THEN 0
    ELSE IF toks[i] \in CloseBrackets THEN i
    ELSE FirstClose(toks, i + 1)

\* the pattern [\[<]image:([^\]>]+)[\]>] matches at token i
MatchAt(toks, i) ==
    /\ i + 3 <= Len(toks)
    /\ toks[i] \in OpenBrackets
    /\ toks[i + 1] = "image:"
    /\ FirstClose(toks, i + 2) >= i + 3

\* str.strip(): the blanks at both ends removed
RECURSIVE LStrip(_)
LStrip(toks) ==
    IF toks # <<>> /\ Head(toks) \in Whitespace THEN LStrip(Tail(toks)) ELSE toks

RECURSIVE RStrip(_)
RStrip(toks) ==
    IF toks # <<>> /\ toks[Len(toks)] \in Whitespace
    THEN RStrip(SubSeq(toks, 1, Len(toks) - 1))
    ELSE toks

Strip(toks) == RStrip(LStrip(toks))

\* re.search(pattern, text): the index of the leftmost match, 0 for None
RECURSIVE Search(_, _)
Search(toks, i) ==
    IF i > Len(toks) THEN 0
    ELSE IF MatchAt(toks, i) THEN i
    ELSE Search(toks, i + 1)

\* re.sub(pattern, '', text): every match removed, scanning from token i
RECURSIVE Sub(_, _)
Sub(toks, i) ==
    IF i > Len(toks) THEN <<>>
    ELSE IF MatchAt(toks, i) THEN Sub(toks, FirstClose(toks, i + 2) + 1)
    ELSE <<toks[i]>> \o Sub(toks, i + 1)

\* Agent._parse_image_path(text): (clean_text, image_path)
ParseImagePath(toks) ==
    LET at == Search(toks, 1)
    IN IF at # 0
       THEN [text |-> Join(Strip(Sub(toks, 1))),
             path |-> Join(Strip(SubSeq(toks, at + 2, FirstClose(toks, at + 2) - 1)))]
       ELSE [text |-> Join(toks), path |-> NoneValue]

\* the note _build_multimodal_content adds for a missing file
MissingImagePrefix == "\n[note: image file does not exist: "   \* "\n[注意: 图片文件不存在: "
MissingImageSuffix == "]"

TextPart(text) == [type |-> "text", text |-> text]
ImagePart(url) == [type |-> "image_url", image_url |-> [url |-> url]]

\* the content built without the test of the file
BuildMultimodalContentNoExistsTest(text, image_path, multimodal) ==
    IF ~Truthy(image_path) \/ ~multimodal
    THEN StrContent(text)
    ELSE ListContent((IF Truthy(text) THEN <<TextPart(text)>> ELSE <<>>)
                         \o <<ImagePart(image_path)>>)

\* Agent._build_multimodal_content(text, image_path)
BuildMultimodalContent(text, image_path, multimodal) ==
    IF ~Truthy(image_path) \/ ~multimodal
    THEN StrContent(text)
    ELSE IF image_path \notin ExistingFiles
    THEN StrContent(text \o MissingImagePrefix \o image_path \o MissingImageSuffix)
    ELSE ListContent((IF Truthy(text) THEN <<TextPart(text)>> ELSE <<>>)
                         \o <<ImagePart(image_path)>>)

(***************************************************************************)
(* The provider clients: LLMManager and the settings it reads              *)
(***************************************************************************)
\* LLMProvider: the values of the enumeration
LLMProviders == {"openai", "anthropic", "deepseek", "zhipu", "qwen"}

\* AgentSettings.default_llm_provider
DefaultLLMProvider == "openai"

\* the ValueError of get_client, which names the provider
NoConfigPrefix == "no configuration found for "          \* "未找到 "
NoConfigSuffix == ", please check the environment"       \* " 的配置，请检查环境变量"

\* Settings.get_llm_config(provider): llm_configs.get(provider)
GetLLMConfig(configs, provider) ==
    LET p == IF provider = NoneValue THEN DefaultLLMProvider ELSE provider
    IN IF p \in DOMAIN configs THEN configs[p] ELSE NoneValue

\* Settings.register_llm(config): llm_configs[config.provider] = config
RegisterLLMConfig(configs, config) ==
    [p \in DOMAIN configs \cup {config} |-> IF p = config THEN config ELSE configs[p]]

\* LLMManager._create_client(config): the class of the client
CreateClient(config) ==
    IF config \in {"openai", "deepseek", "qwen"} THEN "OpenAIClient"
    ELSE IF config = "anthropic" THEN "AnthropicClient"
    ELSE IF config = "zhipu" THEN "OpenAIClient"
    ELSE NoneValue

\* a lookup that returns whatever client the cache holds, whichever
\* provider it was made for
GetClientAnyCached(cache, configs, provider) ==
    LET p == IF provider = NoneValue THEN DefaultLLMProvider ELSE provider
    IN IF DOMAIN cache # {}
       THEN [result |-> Return(cache[CHOOSE q \in DOMAIN cache : TRUE]), cache |-> cache,
             created |-> <<>>]
       ELSE IF GetLLMConfig(configs, p) = NoneValue
       THEN [result |-> Raise("ValueError", NoConfigPrefix \o p \o NoConfigSuffix),
             cache |-> cache, created |-> <<>>]
       ELSE [result |-> Return(CreateClient(GetLLMConfig(configs, p))),
             cache |-> [q \in {p} |-> CreateClient(GetLLMConfig(configs, p))],
             created |-> <<p>>]

\* a lookup that stores a placeholder before the configuration is read
GetClientStoreFirst(cache, configs, provider) ==
    LET p == IF provider = NoneValue THEN DefaultLLMProvider ELSE provider
        stored == [q \in DOMAIN cache \cup {p} |->
                      IF q \in DOMAIN cache THEN cache[q] ELSE CreateClient(p)]
    IN IF p \notin DOMAIN cache /\ GetLLMConfig(configs, p) = NoneValue
       THEN [result |-> Raise("ValueError", NoConfigPrefix \o p \o NoConfigSuffix),
             cache |-> stored, created |-> <<>>]
       ELSE [result |-> Return(stored[p]), cache |-> stored,
             created |-> IF p \in DOMAIN cache THEN <<>> ELSE <<p>>]

\* a lookup that makes a new client at every call and caches the newest
GetClientAlwaysCreates(cache, configs, provider) ==
    LET p == IF provider = NoneValue THEN DefaultLLMProvider ELSE provider
    IN IF GetLLMConfig(configs, p) = NoneValue
       THEN [result |-> Raise("ValueError", NoConfigPrefix \o p \o NoConfigSuffix),
             cache |-> cache, created |-> <<>>]
       ELSE [result |-> Return(CreateClient(GetLLMConfig(configs, p))),
             cache |-> [q \in DOMAIN cache \cup {p} |->
                           IF q = p THEN CreateClient(GetLLMConfig(configs, p))
                           ELSE cache[q]],
             created |-> <<p>>]

\* LLMManager.get_client(provider): the client returned or the error
\* raised, the cache left behind, and the providers _create_client was
\* called for
GetClient(cache, configs, provider) ==
    LET p == IF provider = NoneValue THEN DefaultLLMProvider ELSE provider
    IN IF p \in DOMAIN cache
       THEN [result |-> Return(cache[p]), cache |-> cache, created |-> <<>>]
       ELSE IF GetLLMConfig(configs, p) = NoneValue
       THEN [result |-> Raise("ValueError", NoConfigPrefix \o p \o NoConfigSuffix),
             cache |-> cache, created |-> <<>>]
       ELSE [result |-> Return(CreateClient(GetLLMConfig(configs, p))),
             cache |-> [q \in DOMAIN cache \cup {p} |->
                           IF q = p THEN CreateClient(GetLLMConfig(configs, p))
                           ELSE cache[q]],
             created |-> <<p>>]

\* BaseLLMClient.encode_image(path): the base64 text of the file; open()
\* raises for a file that does not exist
EncodeImage(path) == "<base64 of " \o path \o ">"
FileNotFoundPrefix == "[Errno 2] No such file or directory: '"
FileNotFoundSuffix == "'"

DataUrl(path) == "data:image/jpeg;base64," \o EncodeImage(path)

\* the urls that start with http://, https:// or data:
RemoteUrls == {"https://example.com/cat.png"}
StartsWithScheme(url) ==
    url \in RemoteUrls \cup {DataUrl(p) : p \in ExistingFiles}

\* the url OpenAIClient._process_message_content leaves in image_data["url"]
ProcessUrl(url) == IF StartsWithScheme(url) THEN url ELSE DataUrl(url)

\* the part is a local image whose file encode_image cannot open
PartFails(part) ==
    /\ part.type = "image_url"
    /\ ~StartsWithScheme(part.image_url.url)
    /\ part.image_url.url \notin ExistingFiles

\* the parts of the request, in the order the processing visits them:
\* <<message index, part index>>
RECURSIVE PartsInOrder(_, _, _)
PartsInOrder(reqs, i, j) ==
    IF i > Len(reqs) THEN <<>>
    ELSE IF reqs[i].content_type = "str" \/ j > Len(reqs[i].content)
    THEN PartsInOrder(reqs, i + 1, 1)
    ELSE <<(<<i, j>>)>> \o PartsInOrder(reqs, i, j + 1)

\* every part of every structured content of the request
PositionsOf(reqs) ==
    LET order == PartsInOrder(reqs, 1, 1) IN {order[k] : k \in 1..Len(order)}

\* the first part of the request whose file cannot be opened, <<>> if none
FirstFailure(reqs) ==
    LET order == PartsInOrder(reqs, 1, 1)
        failing == {k \in 1..Len(order) : PartFails(reqs[order[k][1]].content[order[k][2]])}
    IN IF failing = {} THEN <<>>
       ELSE order[CHOOSE k \in failing : \A l \in failing : k <= l]

\* one part of a structured content after the processing
ProcessPart(part) ==
    IF part.type = "image_url" THEN ImagePart(ProcessUrl(part.image_url.url)) ELSE part

\* OpenAIClient.chat on the i-th message of the request, when the
\* processing stops at the part `stop` (<<>>: it runs to the end).  The
\* url is assigned in image_data, the dict that the content of the
\* caller's message holds, so the caller's message shows it too.
ProcessInPlace(m, i, stop) ==
    IF m.content_type = "str" THEN m
    ELSE [m EXCEPT !.content =
             [j \in 1..Len(m.content) |->
                 IF stop = <<>> \/ i < stop[1] \/ (i = stop[1] /\ j < stop[2])
                 THEN ProcessPart(m.content[j])
                 ELSE m.content[j]]]

(***************************************************************************)
(* The memory store: LocalFileStorage and MemoryManager                    *)
(*                                                                         *)
(* A content and a query are sequences of words, their strings being the   *)
(* words joined by single blanks.  Scores and importances are counted in   *)
(* tenths, a relevance in hundredths.                                      *)
(***************************************************************************)
\* str.lower() on a word: every upper-case letter becomes its lower-case one
RECURSIVE Lower(_)
Lower(word) ==
    LET lower == [A |-> "a", B |-> "b", C |-> "c", D |-> "d", E |-> "e", F |-> "f", G |-> "g",
                  H |-> "h", I |-> "i", J |-> "j", K |-> "k", L |-> "l", M |-> "m", N |-> "n",
                  O |-> "o", P |-> "p", Q |-> "q", R |-> "r", S |-> "s", T |-> "t", U |-> "u",
                  V |-> "v", W |-> "w", X |-> "x", Y |-> "y", Z |-> "z"]
        c == SubSeq(word, 1, 1)
    IN IF word = "" THEN ""
       ELSE (IF c \in DOMAIN lower THEN lower[c] ELSE c)
                \o Lower(SubSeq(word, 2, Len(word)))

LowerAll(words) == [i \in 1..Len(words) |-> Lower(words[i])]

\* the string of a word sequence
RECURSIVE JoinWords(_)
JoinWords(words) ==
    IF words = <<>> THEN ""
    ELSE IF Len(words) = 1 THEN words[1]
    ELSE words[1] \o " " \o JoinWords(Tail(words))

\* `word in content_lower`: the word is a substring of the content's string
ContainsWord(content, word) ==
    LET text == JoinWords(content)
    IN \E i \in 0..(Len(text) - Len(word)) :
           SubSeq(text, i + 1, i + Len(word)) = word

\* `query_lower in content_lower` for the strings of two word sequences
ContainsText(content, query) == ContainsWord(content, JoinWords(query))

\* the words of the query found in the content, counted with repetitions
RECURSIVE WordHits(_, _)
WordHits(content, query) ==
    IF query = <<>> THEN 0
    ELSE (IF ContainsWord(content, Head(query)) THEN 1 ELSE 0)
             + WordHits(content, Tail(query))

\* the score of search for one item, in tenths: 1.0 for the whole query,
\* 0.3 for each word of it
Score(item, query) ==
    (IF ContainsText(LowerAll(item.content), LowerAll(query)) THEN 10 ELSE 0)
        + 3 * WordHits(LowerAll(item.content), LowerAll(query))

\* score * item.importance, in hundredths
Relevance(item, query) == Score(item, query) * item.importance

\* the item goes before the items that are as relevant as it is
InsertBeforeEqual(sorted, item, query) ==
    LET before == {k \in 1..Len(sorted) :
                      Relevance(sorted[k], query) > Relevance(item, query)}
        n == Cardinality(before)
    IN SubSeq(sorted, 1, n) \o <<item>> \o SubSeq(sorted, n + 1, Len(sorted))

\* one step of the stable sort by decreasing relevance: the item goes
\* after every item that is at least as relevant
InsertSorted(sorted, item, query) ==
    LET before == {k \in 1..Len(sorted) :
                      Relevance(sorted[k], query) >= Relevance(item, query)}
        n == Cardinality(before)
    IN SubSeq(sorted, 1, n) \o <<item>> \o SubSeq(sorted, n + 1, Len(sorted))

\* results.sort(key=lambda x: x[1], reverse=True) over the first n items
RECURSIVE SortByRelevance(_, _, _)
SortByRelevance(items, n, query) ==
    IF n = 0 THEN <<>>
    ELSE InsertSorted(SortByRelevance(items, n - 1, query), items[n], query)

\* the items of the cache with a positive score, in the order of the cache
RECURSIVE Matching(_, _)
Matching(items, query) ==
    IF items = <<>> THEN <<>>
    ELSE (IF Score(Head(items), query) > 0 THEN <<Head(items)>> ELSE <<>>)
             \o Matching(Tail(items), query)

\* the Python slice xs[:k] for k >= 0
SliceTo(xs, k) == SubSeq(xs, 1, IF k > Len(xs) THEN Len(xs) ELSE k)

\* LocalFileStorage.search(query, top_k)
StorageSearch(cache, query, top_k) ==
    LET results == Matching(cache, query)
    IN SliceTo(SortByRelevance(results, Len(results), query), top_k)

\* MemoryManager.recall(query, top_k)
RecallMemories(cache, query, top_k) == StorageSearch(cache, query, top_k)

\* datetime.now().strftime('%Y%m%d%H%M%S') in the second the clock shows
NowStamp(now) == "202610292111" \o ToString(48 + now)

\* MemoryManager._generate_id(), for the counter already incremented
GenerateId(now, counter) == "mem_" \o NowStamp(now) \o "_" \o ToString(counter)

\* MemoryItem(id, memory_type, content, importance): access_count is 0
MemoryItem(id, memory_type, content, importance) ==
    [id |-> id, memory_type |-> memory_type, content |-> content,
     importance |-> importance, access_count |-> 0]

\* LocalFileStorage.save(item): self._cache[item.id] = item
StorageSave(cache, item) ==
    IF \E k \in 1..Len(cache) : cache[k].id = item.id
    THEN [k \in 1..Len(cache) |-> IF cache[k].id = item.id THEN item ELSE cache[k]]
    ELSE Append(cache, item)

\* the values of the enum MemoryType
MemoryTypeValues ==
    {"user_preference", "user_info", "topic_interest", "interaction", "fact"}

\* the importance extract_and_save_memory gives, in tenths
ExtractedImportance == 6

\* the state of a manager and what it has done: its cache, its counter, the
\* file, the items returned, the ids generated, the exception that escaped
ManagerState(cache, counter, file) ==
    [cache |-> cache, counter |-> counter, file |-> file, saved |-> <<>>,
     ids |-> <<>>, raised |-> NoneValue]

SaveError == "[Errno 28] No space left on device"

\* add_memory(content, memory_type, importance) on a manager state, in the
\* second now; the write of the file succeeds (disk = "ok") or raises,
\* leaving the file as it was (disk = "kept") or cut short (disk = "cut")
AddTo(st, now, memory_type, content, importance, disk) ==
    LET id == GenerateId(now, st.counter + 1)
        item == MemoryItem(id, memory_type, content, importance)
        cache == StorageSave(st.cache, item)
    IN [cache |-> cache,
        counter |-> st.counter + 1,
        file |-> CASE disk = "ok" -> cache
                   [] disk = "kept" -> st.file
                   [] OTHER -> <<>>,
        saved |-> IF disk = "ok" THEN Append(st.saved, item) ELSE st.saved,
        ids |-> Append(st.ids, id),
        raised |-> IF disk = "ok" THEN NoneValue ELSE SaveError]

\* every tag is taken for a memory type
AnyTagIsMemoryType(tag) == TRUE

\* MemoryType(memory_type_str) returns: the tag is a value of the enum
IsMemoryType(tag) == tag \in MemoryTypeValues

\* the body of the loop over extracted_info.items() for one tag: the tag is
\* made a MemoryType, which raises ValueError for an unknown one (the tag is
\* then skipped), and its contents are added in order; disks tells how the
\* write of each add_memory call ends, counted over the whole call
RECURSIVE AddContents(_, _, _, _, _)
AddContents(st, now, tag, contents, disks) ==
    IF ~IsMemoryType(tag) \/ contents = <<>> THEN st
    ELSE LET before == AddContents(st, now, tag,
                                   SubSeq(contents, 1, Len(contents) - 1), disks)
         IN IF before.raised # NoneValue THEN before
            ELSE AddTo(before, now, tag, contents[Len(contents)],
                       ExtractedImportance, disks[Len(before.ids) + 1])

\* MemoryManager.extract_and_save_memory(user_message, assistant_response,
\* extracted_info), the dict given as the sequence of its (tag, contents)
RECURSIVE ExtractAndSaveMemory(_, _, _, _)
ExtractAndSaveMemory(st, now, extracted_info, disks) ==
    IF extracted_info = <<>> THEN st
    ELSE LET before == ExtractAndSaveMemory(
                           st, now,
                           SubSeq(extracted_info, 1, Len(extracted_info) - 1), disks)
             last == extracted_info[Len(extracted_info)]
         IN IF before.raised # NoneValue THEN before
            ELSE AddContents(before, now, last.tag, last.contents, disks)

\* the first line format_memories_for_context writes
MemoriesHeader == "[memories about the user]"

\* f"- [{mem.memory_type.value}] {mem.content}"
MemoryLine(mem) == "- [" \o mem.memory_type \o "] " \o JoinWords(mem.content)

\* "\n".join(lines) for the header and the lines of the items
RECURSIVE JoinLines(_, _)
JoinLines(text, items) ==
    IF items = <<>> THEN text
    ELSE JoinLines(text \o "\n" \o MemoryLine(Head(items)), Tail(items))

DefaultMaxItems == 5

\* MemoryManager.format_memories_for_context(query, max_items)
FormatMemoriesForContext(cache, query, max_items) ==
    LET found == RecallMemories(cache, query, max_items)
    IN IF found = <<>> THEN "" ELSE JoinLines(MemoriesHeader, found)

(***************************************************************************)
(* What Agent._extract_memory finds in a user text                         *)
(*                                                                         *)
(* The user text is a token sequence as above.  The full stop of the       *)
(* source and its trigger phrases are tokens of their own, written in      *)
(* ASCII; the words of a text are the runs of characters between the      *)
(* blanks of the joined tokens.                                            *)
(***************************************************************************)
FullStop == "."

\* preference_patterns: "xihuan", "pianhao", "wo shi", "wo jiao",
\* "wo de mingzi", "dui...gan xingqu"
PreferencePatterns ==
    << [pattern |-> "like", memory_type |-> "user_preference"],
       [pattern |-> "prefer", memory_type |-> "user_preference"],
       [pattern |-> "i-am", memory_type |-> "user_info"],
       [pattern |-> "call-me", memory_type |-> "user_info"],
       [pattern |-> "my-name", memory_type |-> "user_info"],
       [pattern |-> "into...things", memory_type |-> "topic_interest"] >>

\* `pattern in text`
ContainsToken(toks, pattern) == \E i \in 1..Len(toks) : toks[i] = pattern

\* the length of the run of tokens before the first token of the set
RECURSIVE RunBefore(_, _)
RunBefore(toks, stops) ==
    IF toks = <<>> \/ Head(toks) \in stops THEN 0
    ELSE 1 + RunBefore(Tail(toks), stops)

\* str.split(sep): the pieces between the separators, empty ones included
RECURSIVE SplitOn(_, _)
SplitOn(toks, sep) ==
    LET n == RunBefore(toks, {sep})
    IN IF n = Len(toks) THEN <<toks>>
       ELSE <<SubSeq(toks, 1, n)>> \o SplitOn(SubSeq(toks, n + 2, Len(toks)), sep)

\* str.split() read character by character: word is the run of characters
\* read since the last blank
RECURSIVE SplitWords(_, _)
SplitWords(text, word) ==
    LET c == SubSeq(text, 1, 1)
        done == IF word = "" THEN <<>> ELSE <<word>>
    IN IF text = "" THEN done
       ELSE IF c \in Whitespace THEN done \o SplitWords(SubSeq(text, 2, Len(text)), "")
       ELSE SplitWords(SubSeq(text, 2, Len(text)), word \o c)

\* str.split(): the words of the text, the runs of characters between blanks
Words(toks) == SplitWords(Join(toks), "")

\* extracted[mem_type_key].append(content), the key created when missing
AddFragment(info, tag, content) ==
    IF \E k \in 1..Len(info) : info[k].tag = tag
    THEN [k \in 1..Len(info) |->
             IF info[k].tag = tag
             THEN [info[k] EXCEPT !.contents = Append(@, content)]
             ELSE info[k]]
    ELSE Append(info, [tag |-> tag, contents |-> <<content>>])

\* the loop over the sentences for one pattern, over the first n sentences
RECURSIVE ExtractSentences(_, _, _, _)
ExtractSentences(info, entry, sentences, n) ==
    IF n = 0 THEN info
    ELSE LET before == ExtractSentences(info, entry, sentences, n - 1)
         IN IF ContainsToken(sentences[n], entry.pattern)
            THEN AddFragment(before, entry.memory_type, Words(Strip(sentences[n])))
            ELSE before

\* the loop over the first n patterns: the dict `extracted`, as the sequence
\* of its (tag, contents) in insertion order
RECURSIVE Extracted(_, _)
Extracted(toks, n) ==
    IF n = 0 THEN <<>>
    ELSE LET before == Extracted(toks, n - 1)
             sentences == SplitOn(toks, FullStop)
         IN IF ContainsToken(toks, PreferencePatterns[n].pattern)
            THEN ExtractSentences(before, PreferencePatterns[n], sentences,
                                  Len(sentences))
            ELSE before

\* the extracted_info _extract_memory hands to extract_and_save_memory
ExtractedInfo(toks) == Extracted(toks, Len(PreferencePatterns))

\* the writes of n add_memory calls all succeed
DisksOk(n) == [i \in 1..n |-> "ok"]

\* the number of contents in an extracted_info
RECURSIVE CountContents(_)
CountContents(info) ==
    IF info = <<>> THEN 0 ELSE Len(Head(info).contents) + CountContents(Tail(info))

\* how the writes of n add_memory calls may end: all succeed, or one of
\* them raises
DiskOutcomes(n) ==
    {DisksOk(n)}
        \cup {[i \in 1..n |-> IF i = k THEN disk ELSE "ok"] :
                  k \in 1..n, disk \in {"kept", "cut"}}

(***************************************************************************)
(* The provider: what LLMManager.chat may return                           *)
(***************************************************************************)
max_tool_iterations == 5
DefaultHistoryLimit == 10
MaxHistoryLimit == 2
MaxStartLen == 3

HistoryLimits == (0..MaxHistoryLimit) \cup {DefaultHistoryLimit}

\* Agent.DEFAULT_SYSTEM_PROMPT, rendered in ASCII like the other fixed texts
DEFAULT_SYSTEM_PROMPT == "You are a helpful assistant."
SystemPromptArgs == {NoneValue, "You are a support agent."}
UserInputs == { <<"what", " ", "is", " ", "2+2?">> }

\* the stores the file may give at construction: an empty one, and one
\* holding a fact saved by an earlier process
StartStores ==
    { <<>>,
      <<[id |-> "mem_20261028090000_1", memory_type |-> "fact",
         content |-> <<"asked", "about", "2+2?">>, importance |-> 5,
         access_count |-> 0]>> }

\* the tool calls a provider response may carry, before ids are given
CallsOne == <<[name |-> "calculator", arguments |-> J_Calc22]>>
CallsThree == <<[name |-> "nosuch", arguments |-> J_EmptyObj],
                [name |-> "calculator", arguments |-> J_Truncated],
                [name |-> "datetime", arguments |-> J_NowFmtInt]>>

ResponseShapes ==
    { [content |-> "4", calls |-> <<>>],
      [content |-> "", calls |-> <<>>],
      [content |-> NoneValue, calls |-> <<>>],
      [content |-> NoneValue, calls |-> CallsOne],
      [content |-> "let me check", calls |-> CallsThree] }

\* the provider gives every tool call of a conversation its own id
CallId(start, round, i) ==
    "call_" \o ToString(start) \o "_" \o ToString(round) \o "_" \o ToString(i)

\* the provider get_client looks up for the running Agent
ProviderKey == IF llm_provider = NoneValue THEN DefaultLLMProvider ELSE llm_provider

\* the result {content, tool_calls} of client.chat for what the transport
\* answered.  An OpenAIClient returns message.content as it came, None
\* included; an AnthropicClient starts from content = "" and takes the text
\* of a text block, so that an answer without text gives ""
ProviderResult(client, shape, start, round) ==
    [content |-> IF client = "AnthropicClient" /\ shape.content = NoneValue
                 THEN "" ELSE shape.content,
     tool_calls |-> [i \in 1..Len(shape.calls) |->
                        [id |-> CallId(start, round, i),
                         name |-> shape.calls[i].name,
                         arguments |-> shape.calls[i].arguments]]]

NoResponse == [content |-> NoneValue, tool_calls |-> <<>>]

(***************************************************************************)
(* Agent.chat, one action per stretch between two suspension points        *)
(***************************************************************************)
\* a ceiling test that lets one more round through
LoopContinuesOneMore(resp, iter) ==
    resp.tool_calls # <<>> /\ iter <= max_tool_iterations

\* the loop condition of chat
LoopContinues(resp, iter) ==
    resp.tool_calls # <<>> /\ iter < max_tool_iterations

\* the assistant message appended at the top of a tool round
AssistantToolMessage(resp) ==
    Message("assistant", OrElse(resp.content, ""), NoneValue, NoneValue,
            resp.tool_calls)

\* an empty content is returned as it is
AssistantResponseNoFallback(resp) == OrElse(resp.content, "")

\* assistant_response = response["content"] or the fallback text
AssistantResponse(resp) == OrElse(resp.content, FallbackReply)

\* the final message keeps the tool calls of the response
FinalMessageKeepsCalls(resp) ==
    Message("assistant", AssistantResponse(resp), NoneValue, NoneValue,
            resp.tool_calls)

FinalMessage(resp) ==
    Message("assistant", AssistantResponse(resp), NoneValue, NoneValue, <<>>)

\* the tool message is correlated by the tool's name instead of the call id
ToolMessageNameAsId(tool_call, result) ==
    Message("tool", result, tool_call.name, tool_call.name, <<>>)

\* the tool message _handle_tool_calls builds for one call and its result
ToolMessage(tool_call, result) ==
    Message("tool", result, tool_call.name, tool_call.id, <<>>)

\* tool messages collected newest first
CollectToolMessageFront(tms, m) == <<m>> \o tms

\* tool_messages.append(...) in _handle_tool_calls
CollectToolMessage(tms, m) == Append(tms, m)

\* only the last tool message of the batch reaches the conversation
AddToolMessagesLastOnly(msgs, tms) == Append(msgs, tms[Len(tms)])

\* `for msg in tool_messages: self.context.add_message(msg)`
AddToolMessages(msgs, tms) == msgs \o tms

\* the result is announced before the call is executed
CallEventsResultFirst(tool_call, result) ==
    << [type |-> "on_tool_call", name |-> tool_call.name, arg |-> tool_call.arguments],
       [type |-> "on_tool_result", name |-> tool_call.name, arg |-> result],
       [type |-> "execute", name |-> tool_call.name, arg |-> tool_call.arguments] >>

\* the notifications and the execution of one call, in program order
CallEvents(tool_call, result) ==
    << [type |-> "on_tool_call", name |-> tool_call.name, arg |-> tool_call.arguments],
       [type |-> "execute", name |-> tool_call.name, arg |-> tool_call.arguments],
       [type |-> "on_tool_result", name |-> tool_call.name, arg |-> result] >>

\* chat, lines 300-304: the text and the image path the turn goes on with
ChatInput(toks, image_arg) ==
    IF ~Truthy(image_arg)
    THEN LET parsed == ParseImagePath(toks)
         IN [user_input |-> parsed.text,
             image_path |-> IF Truthy(parsed.path) THEN parsed.path ELSE image_arg]
    ELSE [user_input |-> Join(toks), image_path |-> image_arg]

\* the tokens of the user_input ChatInput gives
InputTokens(toks, image_arg) ==
    IF ~Truthy(image_arg) /\ Search(toks, 1) # 0 THEN Strip(Sub(toks, 1)) ELSE toks

\* chat(user_input, image_path) up to its first provider call: the user
\* message is appended, the memory context recalled and the request built
Chat(toks, image_arg) ==
    /\ pc = "idle"
    /\ Len(messages) <= MaxStartLen
    /\ LET input == ChatInput(toks, image_arg)
           memctx == FormatMemoriesForContext(
                         memories, Words(InputTokens(toks, image_arg)),
                         DefaultMaxItems)
           message_content == BuildMultimodalContent(input.user_input,
                                                     input.image_path,
                                                     enable_multimodal)
           msgs == Append(messages, TypedMessage("user", message_content,
                                                 NoneValue, NoneValue, <<>>))
       IN /\ messages' = msgs
          /\ sent' = BuildMessages(system_prompt, memctx, msgs, history_limit)
          /\ user_input' = input.user_input
          /\ memory_context' = memctx
    /\ base' = Len(messages)
    /\ pc' = "request"
    /\ iteration' = 0
    /\ response' = NoResponse
    /\ responses' = <<>>
    /\ requests' = 0
    /\ events' = <<>>
    /\ tool_index' = 0
    /\ tool_messages' = <<>>
    /\ reply' = NoneValue
    /\ outcome' = "running"
    /\ error' = NoneValue
    /\ chat_text' = toks
    /\ chat_image' = image_arg
    /\ tools_arg' = GetTools(enable_tools, tools)
    /\ UNCHANGED <<registry_vars, store_vars, peer_memories, peer_id_counter, running,
                   suspended, constructed, enable_tools, sent_tools, process_vars,
                   recall_vars, format_vars, extract_vars, get_vars, config_vars, clients>>

\* chat(text) with no image_path argument
ChatStart(toks) == Chat(toks, NoneValue)

\* the conversation after the request was processed: the dicts of the
\* request were made by to_dict from the last Len(reqs) - 1 messages and
\* hold the content objects of these messages
SharedWithRequest(msgs, reqs, stop) ==
    LET offset == Len(msgs) - Len(reqs)
    IN [k \in 1..Len(msgs) |->
           IF k - offset >= 2 THEN ProcessInPlace(msgs[k], k - offset, stop)
                              ELSE msgs[k]]

\* LLMManager.chat up to the await of the transport: the client is looked
\* up, and an OpenAIClient processes the contents of the request
CallProvider ==
    /\ pc = "request"
    /\ LET got == GetClient(clients, llm_configs, llm_provider)
           stop == FirstFailure(sent)
       IN /\ clients' = got.cache
          /\ constructed' = constructed \o got.created
          /\ sent_tools' = IF got.result.kind = "raise" THEN sent_tools ELSE tools_arg
          /\ IF got.result.kind = "raise"
             THEN /\ pc' = "idle"
                  /\ outcome' = "raised"
                  /\ error' = got.result.value
                  /\ UNCHANGED <<messages, sent, requests>>
             ELSE IF got.result.value # "OpenAIClient"
             THEN /\ pc' = "provider"
                  /\ requests' = requests + 1
                  /\ UNCHANGED <<messages, sent, outcome, error>>
             ELSE /\ messages' = SharedWithRequest(messages, sent, stop)
                  /\ sent' = [i \in 1..Len(sent) |-> ProcessInPlace(sent[i], i, stop)]
                  /\ IF stop = <<>>
                     THEN /\ pc' = "provider"
                          /\ requests' = requests + 1
                          /\ UNCHANGED <<outcome, error>>
                     ELSE /\ pc' = "idle"
                          /\ outcome' = "raised"
                          /\ error' = FileNotFoundPrefix
                                          \o sent[stop[1]].content[stop[2]].image_url.url
                                          \o FileNotFoundSuffix
                          /\ UNCHANGED requests
    /\ UNCHANGED <<registry_vars, store_vars, peer_memories, peer_id_counter, running,
                   suspended, enable_tools, tools_arg, process_vars, recall_vars,
                   format_vars, extract_vars, get_vars, config_vars, chat_args, user_input,
                   memory_context, response, iteration, tool_index,
                   tool_messages, reply, base, responses, events>>

\* the provider answers and the loop goes round: the assistant message with
\* the tool calls is appended and the first call is awaited
ProviderRespondTools(shape) ==
    /\ pc = "provider"
    /\ LET resp == ProviderResult(clients[ProviderKey], shape, base, requests)
       IN /\ LoopContinues(resp, iteration)
          /\ response' = resp
          /\ responses' = Append(responses, resp)
          /\ iteration' = iteration + 1
          /\ messages' = Append(messages, AssistantToolMessage(resp))
    /\ tool_index' = 1
    /\ tool_messages' = <<>>
    /\ pc' = "tools"
    /\ UNCHANGED <<registry_vars, memory_vars, config_vars, chat_args, clients, user_input,
                   memory_context, sent, reply, outcome, error, base, requests,
                   events>>

\* the provider answers and the loop ends: the reply is appended, the
\* fragments _extract_memory finds in the user text are saved, and the reply
\* is returned; a write of the store that fails raises out of chat
ProviderRespondFinal(shape) ==
    /\ pc = "provider"
    /\ LET resp == ProviderResult(clients[ProviderKey], shape, base, requests)
           info == ExtractedInfo(InputTokens(chat_text, chat_image))
       IN /\ ~LoopContinues(resp, iteration)
          /\ response' = resp
          /\ responses' = Append(responses, resp)
          /\ messages' = Append(messages, FinalMessage(resp))
          /\ \E disks \in DiskOutcomes(CountContents(info)) :
                LET st == ExtractAndSaveMemory(
                              ManagerState(memories, id_counter, memory_file),
                              clock, info, disks)
                IN /\ memories' = st.cache
                   /\ id_counter' = st.counter
                   /\ memory_file' = st.file
                   /\ generated' = generated \o st.ids
                   /\ IF st.raised = NoneValue
                      THEN /\ reply' = AssistantResponse(resp)
                           /\ outcome' = "returned"
                           /\ error' = error
                      ELSE /\ reply' = reply
                           /\ outcome' = "raised"
                           /\ error' = st.raised
    /\ pc' = "idle"
    /\ UNCHANGED <<registry_vars, peer_vars, clock, recall_vars, format_vars,
                   extract_vars, get_vars, config_vars, chat_args, clients,
                   user_input, memory_context, sent, iteration, tool_index,
                   tool_messages, base, requests, events>>

\* the exception of a failed request
ProviderError == "provider request failed"

\* a failed provider call is made once more
ProviderFailRetries ==
    /\ pc = "provider"
    /\ requests <= max_tool_iterations + 1
    /\ requests' = requests + 1
    /\ UNCHANGED <<registry_vars, memory_vars, config_vars, chat_args, clients, messages, pc,
                   user_input, memory_context, sent, response, iteration,
                   tool_index, tool_messages, reply, outcome, error, base,
                   responses, events>>

\* the provider call raises: chat has no handler, the exception leaves it
ProviderFail ==
    /\ pc = "provider"
    /\ pc' = "idle"
    /\ outcome' = "raised"
    /\ error' = ProviderError
    /\ UNCHANGED <<registry_vars, memory_vars, config_vars, chat_args, clients, messages,
                   user_input, memory_context, sent, response, iteration,
                   tool_index, tool_messages, reply, base, responses, requests,
                   events>>

\* one pass of the loop of _handle_tool_calls; after the last call the tool
\* messages are added to the conversation and the next request is built
ToolStep ==
    /\ pc = "tools"
    /\ LET tool_call == response.tool_calls[tool_index]
           r == Execute(tools, tool_call.name, StrArg(tool_call.arguments))
           tms == CollectToolMessage(tool_messages, ToolMessage(tool_call, r.value))
           msgs == AddToolMessages(messages, tms)
       IN IF r.kind = "raise"
          THEN /\ events' = events \o SubSeq(CallEvents(tool_call, r.value), 1, 2)
               /\ pc' = "idle"
               /\ outcome' = "raised"
               /\ error' = r.value
               /\ UNCHANGED <<messages, sent, tool_index, tool_messages>>
          ELSE /\ events' = events \o CallEvents(tool_call, r.value)
               /\ UNCHANGED <<outcome, error>>
               /\ IF tool_index < Len(response.tool_calls)
                  THEN /\ tool_index' = tool_index + 1
                       /\ tool_messages' = tms
                       /\ pc' = "tools"
                       /\ UNCHANGED <<messages, sent>>
                  ELSE /\ tool_index' = tool_index
                       /\ tool_messages' = tms
                       /\ messages' = msgs
                       /\ sent' = BuildMessages(system_prompt, memory_context,
                                                msgs, history_limit)
                       /\ pc' = "request"
    /\ UNCHANGED <<registry_vars, memory_vars, config_vars, chat_args, clients, user_input,
                   memory_context, response, iteration, reply, base, responses,
                   requests>>

\* Agent.reset_conversation(), called between turns
Reset ==
    /\ pc = "idle"
    /\ messages' = ResetConversation(messages, system_prompt)
    /\ outcome' = "reset"
    /\ UNCHANGED <<registry_vars, memory_vars, config_vars, chat_args, clients, pc, user_input,
                   memory_context, sent, response, iteration, tool_index,
                   tool_messages, reply, error, base, responses, requests,
                   events>>

\* Agent.__init__(enable_tools=enabled): the prompt, the history limit, the
\* conversation holding the system message, and the common tools
\* registered if tools are enabled
InitAgentWith(enabled) ==
    /\ enable_tools = enabled
    /\ enable_multimodal \in BOOLEAN
    /\ tools = ConstructorTools(EmptyRegistry, enabled, enable_multimodal)
    /\ tools_arg = NoTools
    /\ sent_tools = NoTools
    /\ call_name = NoneValue
    /\ call_args = StrArg(J_Empty)
    /\ call_result = Return(NoneValue)
    /\ call_stage = "none"
    /\ executing = <<>>
    /\ got_name = NoneValue
    /\ got_tool = NoneValue
    /\ registry_calls = ConstructorCalls(enabled, enable_multimodal)
    /\ \E p \in SystemPromptArgs : system_prompt = OrElse(p, DEFAULT_SYSTEM_PROMPT)
    /\ history_limit \in HistoryLimits
    /\ messages = <<SystemMessage(system_prompt)>>
    /\ pc = "idle"
    /\ user_input = NoneValue
    /\ memory_context = ""
    /\ sent = <<>>
    /\ response = NoResponse
    /\ iteration = 0
    /\ tool_index = 0
    /\ tool_messages = <<>>
    /\ reply = NoneValue
    /\ outcome = "none"
    /\ base = 0
    /\ responses = <<>>
    /\ requests = 0
    /\ events = <<>>
    /\ error = NoneValue
    /\ clients = <<>>
    /\ chat_text = <<>>
    /\ chat_image = NoneValue
    /\ id_counter = 0
    /\ recall_query = <<>>
    /\ recall_top_k = 0
    /\ recall_result = <<>>
    /\ memory_file = memories
    /\ clock = 0
    /\ generated = <<>>
    /\ peer_memories = <<>>
    /\ peer_id_counter = 0
    /\ running = "a"
    /\ suspended = <<>>
    /\ constructed = <<>>
    /\ format_query = <<>>
    /\ format_result = ""
    /\ extract_info = <<>>
    /\ extract_result = <<>>
    /\ get_id = NoneValue
    /\ get_result = <<>>

\* Agent.__init__ with the default enable_tools=True
InitAgent == InitAgentWith(TRUE)

\* settings after _load_from_env found the key of one provider
ConfigFor(provider) == [p \in {provider} |-> provider]

\* an agent made with the default arguments where the default provider is
\* configured
Init ==
    /\ memories \in StartStores
    /\ InitAgent
    /\ enable_multimodal = TRUE
    /\ llm_provider = NoneValue
    /\ llm_configs = ConfigFor(DefaultLLMProvider)

\* such an agent whose store was empty at construction
InitStore == Init /\ memories = <<>>

Next ==
    \/ \E toks \in UserInputs : ChatStart(toks)
    \/ CallProvider
    \/ \E shape \in ResponseShapes : ProviderRespondTools(shape)
    \/ \E shape \in ResponseShapes : ProviderRespondFinal(shape)
    \/ ProviderFail
    \/ ToolStep
    \/ Reset

Spec == Init /\ [][Next]_vars

(***************************************************************************)
(* Turns whose text may carry an image marker, with and without the        *)
(* image_path argument, on agents with and without multimodal content      *)
(***************************************************************************)
CatPng == "/tmp/cat.png"       \* a file that exists
NonePng == "/tmp/none.png"     \* a file that does not

UserTexts ==
    { <<"describe", " ", "this">>,
      <<"look", " ", "[", "image:", CatPng, "]", " ", "please">>,
      <<"[", "image:", CatPng, "]">>,
      <<"[", "image:", NonePng, "]">>,
      <<"hi", " ", "<", "image:", NonePng, ">">>,
      <<"[", "image:", " ", "]", "hi">>,
      <<" ", "hi", " ", "<", "image:", CatPng, "]", " ", "[", "image:", "b", "]", " ">>,
      <<"[", "image:", "]", "x">>,
      <<"x", " ", "[", "image:", CatPng>>,
      <<"[", "image:", "a", ">", "b", "]">>,
      <<"[", "image:", " ", CatPng, " ", "]">>,
      <<"[", "[", "image:", CatPng, "]", "image:", "b", "]">> }

ImageArgs == {NoneValue, CatPng, NonePng}

FinalShapes == {shape \in ResponseShapes : shape.calls = <<>> /\ Truthy(shape.content)}

InitMultimodal ==
    /\ memories = <<>>
    /\ InitAgent
    /\ system_prompt = DEFAULT_SYSTEM_PROMPT
    /\ history_limit = DefaultHistoryLimit
    /\ enable_multimodal \in BOOLEAN
    /\ llm_provider = NoneValue
    /\ llm_configs = ConfigFor(DefaultLLMProvider)

NextMultimodal ==
    \/ \E toks \in UserTexts, image_arg \in ImageArgs : Chat(toks, image_arg)
    \/ CallProvider
    \/ \E shape \in FinalShapes : ProviderRespondFinal(shape)

SpecMultimodal == InitMultimodal /\ [][NextMultimodal]_vars

(***************************************************************************)
(* Turns with images on agents of either client class: the default         *)
(* provider (an OpenAIClient) and anthropic (an AnthropicClient)           *)
(***************************************************************************)
ClientProviders == {"openai", "anthropic"}

\* the messages the client hands to its transport: OpenAIClient.chat sends
\* the processed messages, AnthropicClient.chat sends the messages that
\* are not the system message, as they are
OnTheWire(client, reqs) ==
    IF client = "AnthropicClient"
    THEN SelectSeq(reqs, LAMBDA m : m.role # "system")
    ELSE reqs

\* the image parts of the messages whose url is a path of the local disk
LocalImageParts(reqs) ==
    {<<i, j>> \in PositionsOf(reqs) :
        /\ reqs[i].content[j].type = "image_url"
        /\ ~StartsWithScheme(reqs[i].content[j].image_url.url)}

InitClients ==
    /\ memories = <<>>
    /\ InitAgent
    /\ system_prompt = DEFAULT_SYSTEM_PROMPT
    /\ history_limit = DefaultHistoryLimit
    /\ enable_multimodal = TRUE
    /\ llm_provider \in ClientProviders
    /\ llm_configs = [p \in ClientProviders |-> p]

NextClients ==
    \/ \E toks \in UserTexts, image_arg \in ImageArgs : Chat(toks, image_arg)
    \/ CallProvider
    \/ \E shape \in FinalShapes : ProviderRespondFinal(shape)

SpecClients == InitClients /\ [][NextClients]_vars

(***************************************************************************)
(* A caller that may reset the conversation while the turn is suspended in *)
(* its provider call (another task of the same event loop)                 *)
(***************************************************************************)
\* Agent.reset_conversation(), called while chat awaits LLMManager.chat
ResetDuringTurn ==
    /\ pc = "provider"
    /\ messages' = ResetConversation(messages, system_prompt)
    /\ outcome' = "abandoned"
    /\ UNCHANGED <<registry_vars, memory_vars, config_vars, chat_args, clients, pc, user_input,
                   memory_context, sent, response, iteration, tool_index,
                   tool_messages, reply, error, base, responses, requests,
                   events>>

InitConcurrent ==
    /\ Init
    /\ system_prompt = DEFAULT_SYSTEM_PROMPT
    /\ history_limit = DefaultHistoryLimit

NextConcurrent ==
    \/ Next
    \/ ResetDuringTurn

SpecConcurrent == InitConcurrent /\ [][NextConcurrent]_vars

(***************************************************************************)
(* Agents of several providers, over every set of configured providers;    *)
(* configurations may be registered at any time                            *)
(***************************************************************************)
ProvidersUsed == {"openai", "anthropic", "zhipu"}
ProviderArgs == {NoneValue} \cup ProvidersUsed

\* settings.register_llm(config)
RegisterLLM(config) ==
    /\ llm_configs' = RegisterLLMConfig(llm_configs, config)
    /\ UNCHANGED <<registry_vars, memory_vars, system_prompt, history_limit, enable_multimodal,
                   llm_provider, clients, messages, chat_args, pc, user_input,
                   memory_context, sent, response, iteration, tool_index,
                   tool_messages, reply, outcome, error, base, responses,
                   requests, events>>

InitLLM ==
    /\ memories = <<>>
    /\ InitAgent
    /\ system_prompt = DEFAULT_SYSTEM_PROMPT
    /\ history_limit = DefaultHistoryLimit
    /\ enable_multimodal = TRUE
    /\ llm_provider \in ProviderArgs
    /\ \E configured \in SUBSET ProvidersUsed : llm_configs = [p \in configured |-> p]

NextLLM ==
    \/ \E toks \in UserInputs : ChatStart(toks)
    \/ CallProvider
    \/ \E shape \in FinalShapes : ProviderRespondFinal(shape)
    \/ \E config \in ProvidersUsed : RegisterLLM(config)

SpecLLM == InitLLM /\ [][NextLLM]_vars

(***************************************************************************)
(* Two Agents of one process, each with its own conversation, whose turns  *)
(* interleave: the task of one runs from a suspension point to the next    *)
(* while the other waits.  The tool registry, the client cache, settings   *)
(* and the memory file are the process's; everything else is an Agent's.   *)
(***************************************************************************)
\* the fields of the running Agent and the locals of its chat
AgentState ==
    [name |-> running,
     system_prompt |-> system_prompt, history_limit |-> history_limit,
     enable_multimodal |-> enable_multimodal, llm_provider |-> llm_provider,
     messages |-> messages, chat_text |-> chat_text, chat_image |-> chat_image,
     pc |-> pc, user_input |-> user_input, memory_context |-> memory_context,
     sent |-> sent, response |-> response, iteration |-> iteration,
     tool_index |-> tool_index, tool_messages |-> tool_messages,
     reply |-> reply, outcome |-> outcome, error |-> error, base |-> base,
     responses |-> responses, requests |-> requests, events |-> events,
     memories |-> memories, id_counter |-> id_counter,
     enable_tools |-> enable_tools, tools_arg |-> tools_arg, sent_tools |-> sent_tools]

\* Agent(llm_provider=provider) just constructed, not running; its store
\* has loaded the items of memories.json into its cache
NewAgent(name, provider) ==
    [name |-> name,
     system_prompt |-> DEFAULT_SYSTEM_PROMPT, history_limit |-> DefaultHistoryLimit,
     enable_multimodal |-> TRUE, llm_provider |-> provider,
     messages |-> <<SystemMessage(DEFAULT_SYSTEM_PROMPT)>>,
     chat_text |-> <<>>, chat_image |-> NoneValue,
     pc |-> "idle", user_input |-> NoneValue, memory_context |-> "",
     sent |-> <<>>, response |-> NoResponse, iteration |-> 0,
     tool_index |-> 0, tool_messages |-> <<>>,
     reply |-> NoneValue, outcome |-> "none", error |-> NoneValue, base |-> 0,
     responses |-> <<>>, requests |-> 0, events |-> <<>>,
     memories |-> memory_file, id_counter |-> 0,
     enable_tools |-> TRUE, tools_arg |-> NoTools, sent_tools |-> NoTools]

\* the await expressions of chat at which the event loop may run another
\* task: the provider call and the tool call; between turns the task is over
SuspensionPoints == {"idle", "provider", "tools"}

\* the event loop leaves the running Agent's task at a suspension point and
\* resumes the task of the other Agent where it waited
Switch ==
    /\ suspended # <<>>
    /\ pc \in SuspensionPoints
    /\ LET other == suspended[1]
       IN /\ running' = other.name
          /\ suspended' = <<AgentState>>
          /\ system_prompt' = other.system_prompt
          /\ history_limit' = other.history_limit
          /\ enable_multimodal' = other.enable_multimodal
          /\ llm_provider' = other.llm_provider
          /\ messages' = other.messages
          /\ chat_text' = other.chat_text
          /\ chat_image' = other.chat_image
          /\ pc' = other.pc
          /\ user_input' = other.user_input
          /\ memory_context' = other.memory_context
          /\ sent' = other.sent
          /\ response' = other.response
          /\ iteration' = other.iteration
          /\ tool_index' = other.tool_index
          /\ tool_messages' = other.tool_messages
          /\ reply' = other.reply
          /\ outcome' = other.outcome
          /\ error' = other.error
          /\ base' = other.base
          /\ responses' = other.responses
          /\ requests' = other.requests
          /\ events' = other.events
          /\ memories' = other.memories
          /\ id_counter' = other.id_counter
          /\ enable_tools' = other.enable_tools
          /\ tools_arg' = other.tools_arg
          /\ sent_tools' = other.sent_tools
    /\ UNCHANGED <<registry_vars, llm_configs, clients, process_vars, peer_memories,
                   peer_id_counter, constructed, recall_vars, format_vars, extract_vars,
                   get_vars>>

\* what each Agent is told and what the provider answers it
AgentTexts(name) ==
    IF name = "a" THEN { <<"describe", " ", "this">> } ELSE { <<"what", " ", "is", " ", "2+2?">> }

AgentShapes(name) ==
    IF name = "a"
    THEN { [content |-> "a cat", calls |-> <<>>],
           [content |-> "let me look", calls |-> <<[name |-> "datetime", arguments |-> J_Now]>>] }
    ELSE { [content |-> "4", calls |-> <<>>],
           [content |-> NoneValue, calls |-> CallsOne] }

MaxToolRounds == 1

InitAgents ==
    /\ memories = <<>>
    /\ InitAgent
    /\ system_prompt = DEFAULT_SYSTEM_PROMPT
    /\ history_limit = DefaultHistoryLimit
    /\ enable_multimodal = TRUE
    /\ llm_provider = "openai"
    /\ llm_configs = [p \in ClientProviders |-> p]

\* the second Agent is constructed: its store loads the file and its tools
\* are registered in the registry of the process, replacing those that
\* carry their names
Construct ==
    /\ suspended = <<>>
    /\ pc \in SuspensionPoints
    /\ suspended' = <<NewAgent("b", "anthropic")>>
    /\ tools' = ConstructorTools(tools, TRUE, TRUE)
    /\ registry_calls' = registry_calls \o ConstructorCalls(TRUE, TRUE)
    /\ UNCHANGED <<call_name, call_args, call_result, call_stage, executing, got_name, got_tool,
                   agent_vars, store_vars, process_vars, peer_memories,
                   peer_id_counter, running, constructed, enable_tools, tools_arg,
                   sent_tools, recall_vars, format_vars, extract_vars,
                   get_vars>>

NextAgents ==
    \/ \E toks \in AgentTexts(running) : Chat(toks, CatPng)
    \/ CallProvider
    \/ \E shape \in AgentShapes(running) :
          iteration < MaxToolRounds /\ ProviderRespondTools(shape)
    \/ \E shape \in AgentShapes(running) : ProviderRespondFinal(shape)
    \/ ToolStep
    \/ Construct
    \/ Switch

SpecAgents == InitAgents /\ [][NextAgents]_vars

(***************************************************************************)
(* The tool registry on its own: ToolRegistry.execute applied to every     *)
(* name and arguments value below, over every content of the registry      *)
(***************************************************************************)
CallNames == {"calculator", "datetime", "check_json", "generate_image", "nosuch"}

CallArguments ==
    {StrArg(t) : t \in JsonTexts}
        \cup { MapArg([expression |-> Str("2+2")]),
               MapArg([expression |-> Num("5")]),
               MapArg([action |-> Str("noop")]),
               MapArg([action |-> Str("now"), format |-> Num("5")]),
               MapArg([text |-> Str(J_Brace)]),
               MapArg(EmptyDict) }

\* ToolRegistry.execute(name, arguments) is called.  A call whose tool does
\* not give up the event loop returns within the step; one that reaches the
\* request of a keyed ImageGenerationTool is left waiting at it, with the
\* tool it looked up
ExecuteCall(name, arguments) ==
    IF name \in DOMAIN tools /\ Awaits(tools[name], arguments) # <<>>
    THEN /\ Len(executing) < MaxExecuting
         /\ executing' = Append(executing, [name |-> name, arguments |-> arguments,
                                            tool |-> tools[name], at |-> 1])
         /\ UNCHANGED <<tools, call_name, call_args, call_result, call_stage, got_name,
                        got_tool, registry_calls, agent_vars, memory_vars>>
    ELSE /\ call_name' = name
         /\ call_args' = arguments
         /\ call_result' = Execute(tools, name, arguments)
         /\ call_stage' = ExecuteStage(tools, name, arguments)
         /\ UNCHANGED <<tools, executing, got_name, got_tool, registry_calls, agent_vars,
                        memory_vars>>

\* the event loop resumes the i-th waiting call: it goes on to its next
\* await, or tool.execute ends and ToolRegistry.execute returns its result
ExecuteResume(i) ==
    /\ i \in 1..Len(executing)
    /\ LET c == executing[i]
       IN IF c.at < Len(Awaits(c.tool, c.arguments))
          THEN /\ executing' = [executing EXCEPT ![i].at = c.at + 1]
               /\ UNCHANGED <<call_name, call_args, call_result, call_stage>>
          ELSE /\ executing' = SubSeq(executing, 1, i - 1)
                                  \o SubSeq(executing, i + 1, Len(executing))
               /\ call_name' = c.name
               /\ call_args' = c.arguments
               /\ call_result' = ExecuteExcept(ExecuteTry(c.tool, c.arguments))
               /\ call_stage' = "call"
    /\ UNCHANGED <<tools, got_name, got_tool, registry_calls, agent_vars, memory_vars>>

RegisterTool(tool) ==
    /\ tools' = Register(tools, tool)
    /\ UNCHANGED <<call_name, call_args, call_result, call_stage, executing, got_name, got_tool,
                   registry_calls, agent_vars, memory_vars>>

UnregisterTool(name) ==
    /\ tools' = Unregister(tools, name)
    /\ UNCHANGED <<call_name, call_args, call_result, call_stage, executing, got_name, got_tool,
                   registry_calls, agent_vars, memory_vars>>

ClearTools ==
    /\ tools' = EmptyRegistry
    /\ UNCHANGED <<call_name, call_args, call_result, call_stage, executing, got_name, got_tool,
                   registry_calls, agent_vars, memory_vars>>

NextRegistry ==
    \/ \E name \in CallNames, arguments \in CallArguments : ExecuteCall(name, arguments)
    \/ \E i \in 1..MaxExecuting : ExecuteResume(i)
    \/ \E tool \in ToolClasses : RegisterTool(tool)
    \/ \E name \in CallNames : UnregisterTool(name)
    \/ ClearTools

\* the registry as the constructor of one Agent left it
InitRegistry ==
    /\ InitStore
    /\ system_prompt = DEFAULT_SYSTEM_PROMPT
    /\ history_limit = DefaultHistoryLimit

SpecRegistry == InitRegistry /\ [][NextRegistry]_vars

(***************************************************************************)
(* Agents with and without tool calling, while other callers register and  *)
(* unregister tools in the registry of the process                         *)
(***************************************************************************)
ToolShapes == { [content |-> "4", calls |-> <<>>],
                [content |-> NoneValue, calls |-> CallsOne] }

InitTools ==
    /\ memories = <<>>
    /\ \E enabled \in BOOLEAN : InitAgentWith(enabled)
    /\ system_prompt = DEFAULT_SYSTEM_PROMPT
    /\ history_limit = DefaultHistoryLimit
    /\ enable_multimodal = TRUE
    /\ llm_provider = NoneValue
    /\ llm_configs = ConfigFor(DefaultLLMProvider)

NextTools ==
    \/ \E toks \in UserInputs : ChatStart(toks)
    \/ CallProvider
    \/ \E shape \in ToolShapes : iteration < MaxToolRounds /\ ProviderRespondTools(shape)
    \/ \E shape \in ToolShapes : ProviderRespondFinal(shape)
    \/ ToolStep
    \/ \E tool \in ToolClasses : pc \in SuspensionPoints /\ RegisterTool(tool)
    \/ \E name \in CallNames : pc \in SuspensionPoints /\ UnregisterTool(name)
    \/ pc \in SuspensionPoints /\ ClearTools

SpecTools == InitTools /\ [][NextTools]_vars

(***************************************************************************)
(* The names of the registry: register, unregister and clear called in any *)
(* order, with two tools that carry the same name, and the registry asked  *)
(* for a name (get) or to run it (execute) in between                      *)
(***************************************************************************)
\* the calls of register, unregister and clear made after the constructor's
MaxRegistryCalls == 2

\* the names asked for, and the tools registered under them: two tools
\* carry the name 'calculator', and the one of 'generate_image' waits for
\* the image service
NamedNames == {"calculator", "generate_image"}

NamedTools == {"CalculatorTool", FunctionCalculator, KeyedGeneration("no download")}

NamedArguments == {StrArg(J_Calc22), StrArg(J_Prompt)}

RegisterNamed(tool) ==
    /\ Len(registry_calls) < Len(ConstructorCalls(TRUE, TRUE)) + MaxRegistryCalls
    /\ tools' = Register(tools, tool)
    /\ registry_calls' = Append(registry_calls, RegisterCall(tool))
    /\ UNCHANGED <<call_name, call_args, call_result, call_stage, executing, got_name, got_tool,
                   agent_vars, memory_vars>>

UnregisterNamed(name) ==
    /\ Len(registry_calls) < Len(ConstructorCalls(TRUE, TRUE)) + MaxRegistryCalls
    /\ tools' = Unregister(tools, name)
    /\ registry_calls' = Append(registry_calls, UnregisterCall(name))
    /\ UNCHANGED <<call_name, call_args, call_result, call_stage, executing, got_name, got_tool,
                   agent_vars, memory_vars>>

ClearNamed ==
    /\ Len(registry_calls) < Len(ConstructorCalls(TRUE, TRUE)) + MaxRegistryCalls
    /\ tools' = EmptyRegistry
    /\ registry_calls' = Append(registry_calls, ClearCall)
    /\ UNCHANGED <<call_name, call_args, call_result, call_stage, executing, got_name, got_tool,
                   agent_vars, memory_vars>>

GetTool(name) ==
    /\ got_name' = name
    /\ got_tool' = Get(tools, name)
    /\ UNCHANGED <<tools, call_name, call_args, call_result, call_stage, executing,
                   registry_calls,
                   agent_vars, memory_vars>>

NextNames ==
    \/ \E tool \in NamedTools : RegisterNamed(tool)
    \/ \E name \in NamedNames : UnregisterNamed(name)
    \/ ClearNamed
    \/ \E name \in NamedNames : GetTool(name)
    \/ \E name \in NamedNames, arguments \in NamedArguments : ExecuteCall(name, arguments)
    \/ \E i \in 1..MaxExecuting : ExecuteResume(i)

SpecNames == InitRegistry /\ [][NextNames]_vars

(***************************************************************************)
(* The memory manager on its own: items added and recalled                 *)
(***************************************************************************)
MaxMemories == 2
MaxTopK == 2

MemoryTypes == {"user_preference"}
\* contents with their importances: 0.5 (the default) and 1.0
MemoryInputs ==
    { [content |-> <<"likes", "green", "Tea">>, importance |-> 5],
      [content |-> <<"likes", "green", "Tea">>, importance |-> 10],
      [content |-> <<"tea", "and", "jazz">>, importance |-> 5],
      [content |-> <<"likes", "Jazz">>, importance |-> 10] }
Queries == { <<>>, <<"tea">>, <<"green", "tea">>, <<"TEA", "jazz">>,
             <<"tea", "tea">> }

\* MemoryManager.add_memory(content, memory_type, importance): the item is
\* put into the cache and the whole cache written to the file
AddMemory(content, memory_type, importance) ==
    /\ id_counter < MaxMemories
    /\ id_counter' = id_counter + 1
    /\ generated' = Append(generated, GenerateId(clock, id_counter + 1))
    /\ memories' = StorageSave(memories,
                               MemoryItem(GenerateId(clock, id_counter + 1),
                                          memory_type, content, importance))
    /\ memory_file' = memories'
    /\ UNCHANGED <<registry_vars, agent_vars, clock, peer_vars, recall_vars,
                   format_vars, extract_vars, get_vars>>

\* MemoryManager.recall(query, top_k)
Recall(query, top_k) ==
    /\ recall_query' = query
    /\ recall_top_k' = top_k
    /\ recall_result' = RecallMemories(memories, query, top_k)
    /\ UNCHANGED <<registry_vars, agent_vars, store_vars, peer_vars,
                   process_vars, format_vars, extract_vars, get_vars>>

\* format_memories_for_context(query)
FormatMemories(query) ==
    /\ format_query' = query
    /\ format_result' = FormatMemoriesForContext(memories, query, DefaultMaxItems)
    /\ UNCHANGED <<registry_vars, agent_vars, store_vars, peer_vars,
                   process_vars, recall_vars, extract_vars, get_vars>>

NextMemory ==
    \/ \E input \in MemoryInputs, memory_type \in MemoryTypes :
          AddMemory(input.content, memory_type, input.importance)
    \/ \E query \in Queries, top_k \in 0..MaxTopK : Recall(query, top_k)

SpecMemory == InitStore /\ [][NextMemory]_vars

(***************************************************************************)
(* Direct calls of extract_and_save_memory, in one second or another       *)
(***************************************************************************)
MaxClock == 1

GreenTea == <<"likes", "green", "Tea">>
NamedMing == <<"call-me", "Ming">>

ExtractedInfos ==
    { <<>>,
      <<[tag |-> "user_preference", contents |-> <<GreenTea>>]>>,
      <<[tag |-> "mood", contents |-> <<GreenTea>>],
        [tag |-> "user_info", contents |-> <<NamedMing, GreenTea>>]>>,
      <<[tag |-> "user_preference", contents |-> <<GreenTea, GreenTea>>],
        [tag |-> "USER_INFO", contents |-> <<NamedMing>>]>>,
      <<[tag |-> "fact", contents |-> <<>>],
        [tag |-> "", contents |-> <<NamedMing>>]>> }

\* extract_and_save_memory(user_message, assistant_response, extracted_info)
ExtractAndSave(info) ==
    /\ Len(memories) < MaxMemories
    /\ LET st == ExtractAndSaveMemory(ManagerState(memories, id_counter, memory_file),
                                      clock, info, DisksOk(CountContents(info)))
       IN /\ memories' = st.cache
          /\ id_counter' = st.counter
          /\ memory_file' = st.file
          /\ generated' = generated \o st.ids
          /\ extract_result' = st.saved
    /\ extract_info' = info
    /\ UNCHANGED <<registry_vars, agent_vars, clock, peer_vars, recall_vars,
                   format_vars, get_vars>>

\* a second passes
Tick ==
    /\ clock < MaxClock
    /\ clock' = clock + 1
    /\ UNCHANGED <<registry_vars, agent_vars, store_vars, peer_vars, memory_file,
                   generated, recall_vars, format_vars, extract_vars, get_vars>>

NextExtract ==
    \/ \E info \in ExtractedInfos : ExtractAndSave(info)
    \/ Tick

SpecExtract == InitStore /\ [][NextExtract]_vars

(***************************************************************************)
(* Retrieval from the store, by id and by query                            *)
(***************************************************************************)
MaxAccessCount == 2

\* LocalFileStorage.get(memory_id): the item of the cache, its access_count
\* incremented in the cache, or None
StorageGet(cache, memory_id) ==
    LET counted == [k \in 1..Len(cache) |->
                       IF cache[k].id = memory_id
                       THEN [cache[k] EXCEPT !.access_count = @ + 1]
                       ELSE cache[k]]
    IN [cache |-> counted,
        item |-> IF \E k \in 1..Len(cache) : cache[k].id = memory_id
                 THEN <<counted[CHOOSE k \in 1..Len(cache) : cache[k].id = memory_id]>>
                 ELSE <<>>]

\* the ids asked for: those the manager may have generated, and another
MemoryIds == {GenerateId(0, n) : n \in 1..(MaxMemories + 1)}

\* storage.get(memory_id); the cache is written to the file when the item
\* was found
GetMemory(memory_id) ==
    /\ \A k \in 1..Len(memories) : memories[k].access_count < MaxAccessCount
    /\ LET got == StorageGet(memories, memory_id)
       IN /\ memories' = got.cache
          /\ get_result' = got.item
          /\ memory_file' = IF got.item # <<>> THEN got.cache ELSE memory_file
    /\ get_id' = memory_id
    /\ UNCHANGED <<registry_vars, agent_vars, id_counter, peer_vars, clock,
                   generated, recall_vars, format_vars, extract_vars>>

\* LocalFileStorage.delete(memory_id): del self._cache[memory_id]
StorageDelete(cache, memory_id) ==
    LET kept == {k \in 1..Len(cache) : cache[k].id # memory_id}
        RECURSIVE Keep(_)
        Keep(n) == IF n = 0 THEN <<>>
                   ELSE Keep(n - 1) \o (IF n \in kept THEN <<cache[n]>> ELSE <<>>)
    IN Keep(Len(cache))

\* storage.delete(memory_id); the cache is written to the file when the id
\* was a key of it, and the call returns whether it was
DeleteMemory(memory_id) ==
    /\ memories' = StorageDelete(memories, memory_id)
    /\ memory_file' = IF \E k \in 1..Len(memories) : memories[k].id = memory_id
                      THEN memories' ELSE memory_file
    /\ UNCHANGED <<registry_vars, agent_vars, id_counter, peer_vars, clock,
                   generated, recall_vars, format_vars, extract_vars, get_vars>>

RetrieveInputs ==
    { [content |-> <<"likes", "green", "Tea">>, importance |-> 5],
      [content |-> <<"likes", "Jazz">>, importance |-> 10] }
RetrieveQueries == { <<"tea">>, <<"likes">>, <<"coffee">> }

NextRetrieve ==
    \/ \E input \in RetrieveInputs, memory_type \in MemoryTypes :
          AddMemory(input.content, memory_type, input.importance)
    \/ \E query \in RetrieveQueries : Recall(query, DefaultMaxItems)
    \/ \E memory_id \in MemoryIds : GetMemory(memory_id)
    \/ \E memory_id \in MemoryIds : DeleteMemory(memory_id)

SpecRetrieve == InitStore /\ [][NextRetrieve]_vars

(***************************************************************************)
(* Two managers in one process, their stores opened on the same path       *)
(***************************************************************************)
\* add_memory(content, memory_type, importance) on the second manager
PeerAddMemory(content, memory_type, importance) ==
    /\ Len(peer_memories) < MaxMemories
    /\ LET st == AddTo(ManagerState(peer_memories, peer_id_counter, memory_file),
                       clock, memory_type, content, importance, "ok")
       IN /\ peer_memories' = st.cache
          /\ peer_id_counter' = st.counter
          /\ memory_file' = st.file
          /\ generated' = generated \o st.ids
    /\ UNCHANGED <<registry_vars, agent_vars, store_vars, clock, recall_vars,
                   format_vars, extract_vars, get_vars, running, suspended, constructed,
                   enable_tools, tools_arg, sent_tools>>

NextManagers ==
    \/ \E input \in MemoryInputs, memory_type \in MemoryTypes :
          AddMemory(input.content, memory_type, input.importance)
    \/ \E input \in MemoryInputs, memory_type \in MemoryTypes :
          PeerAddMemory(input.content, memory_type, input.importance)
    \/ Tick

SpecManagers == InitStore /\ [][NextManagers]_vars

(***************************************************************************)
(* Turns of an agent whose user texts hold trigger phrases, on a store     *)
(* that may fail to write its file                                         *)
(***************************************************************************)
MemoryTexts ==
    { <<"what", " ", "is", " ", "2+2?">>,
      <<"i", " ", "like", " ", "jazz">>,
      <<"i", " ", "like", " ", "tea", FullStop, " ", "call-me", " ", "Ming">> }

\* the stores the file may give at construction: an empty one, and one
\* holding an item another manager of the process saved in this second
ChatStores ==
    { <<>>,
      <<MemoryItem(GenerateId(0, 1), "user_preference",
                   <<"drinks", "green", "Tea">>, 10)>> }

InitChatMemory ==
    /\ memories \in ChatStores
    /\ InitAgent
    /\ system_prompt = DEFAULT_SYSTEM_PROMPT
    /\ history_limit = DefaultHistoryLimit
    /\ enable_multimodal = TRUE
    /\ llm_provider = NoneValue
    /\ llm_configs = ConfigFor(DefaultLLMProvider)

NextChatMemory ==
    \/ \E toks \in MemoryTexts : ChatStart(toks)
    \/ CallProvider
    \/ \E shape \in FinalShapes : ProviderRespondFinal(shape)
    \/ Tick

SpecChatMemory == InitChatMemory /\ [][NextChatMemory]_vars

(***************************************************************************)
(* The memory block of a query, over stores whose items may have the       *)
(* importance 0                                                            *)
(***************************************************************************)
FormatTypes == {"user_preference", "fact"}
FormatInputs ==
    { [content |-> <<"likes", "green", "Tea">>, importance |-> 0],
      [content |-> <<"tea", "and", "jazz">>, importance |-> 5],
      [content |-> <<"likes", "Jazz">>, importance |-> 10] }
FormatQueries == { <<>>, <<"tea">>, <<"jazz">>, <<"coffee">> }

NextFormat ==
    \/ \E input \in FormatInputs, memory_type \in FormatTypes :
          AddMemory(input.content, memory_type, input.importance)
    \/ \E query \in FormatQueries : FormatMemories(query)

SpecFormat == InitStore /\ [][NextFormat]_vars

(***************************************************************************)
(* Properties                                                              *)
(***************************************************************************)
\* the messages the current (or last) turn appended
TurnMessages == SubSeq(messages, base + 1, Len(messages))

\* a message is an assistant message carrying tool calls
IsToolRequest(m) == m.role = "assistant" /\ m.tool_calls # <<>>

\* the ids of the tool calls a message or a response carries
CallIds(x) == {x.tool_calls[i].id : i \in 1..Len(x.tool_calls)}

\* C1: a turn in which every provider response carries a tool call still
\* ends: it runs exactly 5 tool rounds on 6 provider calls and then returns
\* a reply; the iteration counter never exceeds 5 and no seventh call is made.
C1_CeilingEnforced ==
    /\ iteration <= max_tool_iterations
    /\ requests <= max_tool_iterations + 1
    /\ (/\ outcome = "returned"
        /\ \A k \in 1..Len(responses) : responses[k].tool_calls # <<>>)
       => /\ iteration = 5
          /\ requests = 6
          /\ Len(responses) = 6
          /\ Cardinality({j \in 1..Len(TurnMessages) :
                              IsToolRequest(TurnMessages[j])}) = 5
          /\ reply # NoneValue

C1_Witness ==
    /\ outcome = "returned"
    /\ Len(responses) = 6
    /\ \A k \in 1..6 : responses[k].tool_calls # <<>>
    /\ iteration = 5

\* C2: when a batch of tool calls has been handled, the tool messages added
\* to the conversation are one per call of the provider response, in the
\* order of the calls, the i-th with the id and the name of the i-th call;
\* the messages still being collected obey the same order.
C2_ToolMessagesInCallOrder ==
    /\ pc = "tools" =>
          /\ Len(tool_messages) = tool_index - 1
          /\ \A i \in 1..Len(tool_messages) :
                /\ tool_messages[i].tool_call_id = response.tool_calls[i].id
                /\ tool_messages[i].name = response.tool_calls[i].name
    /\ (pc = "provider" /\ iteration >= 1) =>
          LET n == Len(response.tool_calls)
              L == Len(messages)
          IN /\ L > n
             /\ IsToolRequest(messages[L - n])
             /\ messages[L - n].tool_calls = response.tool_calls
             /\ \A i \in 1..n :
                   /\ messages[L - n + i].role = "tool"
                   /\ messages[L - n + i].tool_call_id = response.tool_calls[i].id
                   /\ messages[L - n + i].name = response.tool_calls[i].name

C2_Witness ==
    /\ pc = "provider"
    /\ iteration = 2
    /\ Len(response.tool_calls) = 3
    /\ messages[Len(messages)].tool_call_id = response.tool_calls[3].id
    /\ messages[Len(messages)].name = "datetime"

\* C3: the conversation is never empty and begins with the system message
\* holding the active system prompt; right after reset_conversation it is
\* that single message, and resetting a reset conversation changes nothing.
C3_SystemMessageFirst ==
    /\ Len(messages) >= 1
    /\ messages[1].role = "system"
    /\ messages[1].content = system_prompt
    /\ outcome = "reset" =>
          /\ Len(messages) = 1
          /\ ResetConversation(messages, system_prompt) = messages
    /\ LET once == ResetConversation(messages, system_prompt)
       IN /\ Len(once) = 1
          /\ once[1].role = "system"
          /\ once[1].content = system_prompt
          /\ ResetConversation(once, system_prompt) = once

C3_Witness ==
    /\ outcome = "reset"
    /\ iteration >= 1
    /\ Len(messages) = 1
    /\ messages[1].content = "You are a support agent."

\* C4: ToolRegistry.execute always returns a string and never raises, for a
\* registered or an unknown name and for well-formed, malformed, non-object
\* or already structured arguments, also when the tool itself raises.
C4_ExecuteReturnsString ==
    call_name # NoneValue =>
        /\ call_result.kind = "return"
        /\ call_result.value \in STRING
        /\ call_result.value # NoneValue

\* the roles one tool round appends: the request, then one tool message
\* per call
RoundRoles(n) == <<"assistant">> \o [i \in 1..n |-> "tool"]

RECURSIVE RoundsRoles(_, _)
RoundsRoles(resps, k) ==
    IF k = 0 THEN <<>>
    ELSE RoundsRoles(resps, k - 1) \o RoundRoles(Len(resps[k].tool_calls))

\* C5: a turn that returns after k tool rounds, round i with n_i calls, has
\* appended exactly: the user message, per round an assistant message with
\* tool_calls and n_i tool messages, and a last assistant message without
\* tool_calls, whose content chat returns.  No round: two messages.  One
\* round of one call: four; with the call calculator(2+2) and the final
\* content 4, the tool message is the calculator's text and the reply is 4.
C5_TurnAppendsExactly ==
    outcome = "returned" =>
        LET tm == TurnMessages
            k == Len(responses) - 1
            roles == <<"user">> \o RoundsRoles(responses, k) \o <<"assistant">>
        IN /\ k \in 0..5
           /\ k = iteration
           /\ Len(tm) = Len(roles)
           /\ \A j \in 1..Len(tm) :
                 /\ tm[j].role = roles[j]
                 /\ (tm[j].role = "assistant" /\ j < Len(tm)) => tm[j].tool_calls # <<>>
                 /\ tm[j].role # "assistant" => tm[j].tool_calls = <<>>
           /\ tm[1].content = user_input
           /\ tm[Len(tm)].tool_calls = <<>>
           /\ reply = tm[Len(tm)].content
           /\ k = 0 => Len(tm) = 2
           /\ (k = 1 /\ Len(responses[1].tool_calls) = 1) => Len(tm) = 4
           /\ (/\ k = 1
               /\ Len(responses[1].tool_calls) = 1
               /\ responses[1].tool_calls[1].name = "calculator"
               /\ responses[1].tool_calls[1].arguments = J_Calc22
               /\ responses[2].content = "4")
              => /\ tm[2].tool_calls = responses[1].tool_calls
                 /\ tm[3].content = CalcResultPrefix \o "2+2 = 4"
                 /\ tm[3].tool_call_id = responses[1].tool_calls[1].id
                 /\ tm[4].content = "4"
                 /\ reply = "4"

C5_Witness ==
    /\ outcome = "returned"
    /\ Len(responses) = 2
    /\ Len(TurnMessages) = 4
    /\ TurnMessages[3].role = "tool"
    /\ TurnMessages[3].content = CalcResultPrefix \o "2+2 = 4"
    /\ reply = "4"

\* C6: a turn that returns produces exactly one final reply: the returned
\* value is the content of the last message of the conversation, that
\* message is an assistant message, and the value is the content of the
\* last provider response, or the fallback text when that content is empty
\* or null; it is never empty.
C6_OneFinalReply ==
    outcome = "returned" =>
        LET last == messages[Len(messages)]
            final == responses[Len(responses)]
            tm == TurnMessages
        IN /\ reply = last.content
           /\ last.role = "assistant"
           /\ reply = (IF final.content \in {"", NoneValue}
                       THEN FallbackReply ELSE final.content)
           /\ reply \notin {"", NoneValue}
           /\ Cardinality({j \in 1..Len(tm) :
                  tm[j].role = "assistant" /\ tm[j].tool_calls = <<>>}) = 1

C6_Witness ==
    /\ outcome = "returned"
    /\ responses[Len(responses)].content = NoneValue
    /\ reply = FallbackReply
    /\ messages[Len(messages)].content = FallbackReply

\* C7: when the sixth response of a turn (the ceiling reached) still asks
\* for tools, the turn ends with that response's content, or the fallback
\* text: its calls are not executed or notified, and no message carries
\* them.
C7_CeilingResponseNotExecuted ==
    (/\ Len(responses) = max_tool_iterations + 1
     /\ responses[max_tool_iterations + 1].tool_calls # <<>>)
    => LET final == responses[max_tool_iterations + 1]
           executed == {j \in 1..Len(events) : events[j].type = "execute"}
           notified == {j \in 1..Len(events) : events[j].type # "execute"}
           RECURSIVE Calls(_)
           Calls(k) == IF k = 0 THEN 0
                       ELSE Calls(k - 1) + Len(responses[k].tool_calls)
       IN /\ pc = "idle"
          /\ reply = OrElse(final.content, FallbackReply)
          /\ Cardinality(executed) = Calls(max_tool_iterations)
          /\ Cardinality(notified) = 2 * Calls(max_tool_iterations)
          /\ \A j \in 1..Len(messages) :
                /\ CallIds(messages[j]) \cap CallIds(final) = {}
                /\ messages[j].tool_call_id \notin CallIds(final)
          /\ outcome = "returned" =>
                /\ messages[Len(messages)].role = "assistant"
                /\ messages[Len(messages)].content = reply
                /\ messages[Len(messages)].tool_calls = <<>>

C7_Witness ==
    /\ Len(responses) = max_tool_iterations + 1
    /\ Len(responses[max_tool_iterations + 1].tool_calls) = 3
    /\ responses[max_tool_iterations + 1].content = "let me check"
    /\ reply = "let me check"
    /\ outcome = "returned"

\* C8 (as claimed): at the end of a turn every tool message immediately
\* follows an assistant message whose tool_calls include its id.
C8_ToolImmediatelyFollowsRequest ==
    pc = "idle" =>
        \A j \in 1..Len(messages) :
            messages[j].role = "tool" =>
                /\ j > 1
                /\ IsToolRequest(messages[j - 1])
                /\ messages[j].tool_call_id \in CallIds(messages[j - 1])

\* C8 (amended): at the end of a turn every tool message follows the
\* assistant message whose tool_calls include its id, with nothing between
\* them but tool messages answering calls of that same assistant message.
C8_ToolFollowsRequestInBatch ==
    pc = "idle" =>
        \A j \in 1..Len(messages) :
            messages[j].role = "tool" =>
                \E a \in 1..(j - 1) :
                    /\ IsToolRequest(messages[a])
                    /\ messages[j].tool_call_id \in CallIds(messages[a])
                    /\ \A b \in (a + 1)..(j - 1) :
                          /\ messages[b].role = "tool"
                          /\ messages[b].tool_call_id \in CallIds(messages[a])

C8_Witness ==
    /\ pc = "idle"
    /\ outcome = "returned"
    /\ \E j \in 3..Len(messages) :
          /\ messages[j].role = "tool"
          /\ messages[j - 1].role = "tool"
          /\ messages[j - 2].role = "tool"

\* C9: every message list sent to the provider holds exactly one system
\* message, first, followed by the min(N, L) most recent of the L non-system
\* messages of the conversation, in conversation order (N the history
\* limit).
C9_RequestIsSystemPlusRecent ==
    pc = "provider" =>
        LET nonsys == SelectSeq(messages, LAMBDA m : m.role # "system")
            L == Len(nonsys)
            m == IF history_limit < L THEN history_limit ELSE L
        IN /\ Len(sent) = 1 + m
           /\ sent[1].role = "system"
           /\ sent[1].content = SystemContent(system_prompt, memory_context)
           /\ \A i \in 1..m :
                 /\ sent[1 + i].role = nonsys[L - m + i].role
                 /\ sent[1 + i].role # "system"
                 /\ sent[1 + i].content = nonsys[L - m + i].content
                 /\ sent[1 + i].tool_call_id = nonsys[L - m + i].tool_call_id
                 /\ Len(sent[1 + i].tool_calls) = Len(nonsys[L - m + i].tool_calls)

C9_Witness ==
    /\ pc = "provider"
    /\ history_limit = 2
    /\ Len(messages) = 7
    /\ Len(sent) = 3
    /\ sent[2].role = messages[6].role
    /\ sent[3].content = messages[7].content

\* C10: in every message list sent to the provider, each tool message is
\* preceded, in that list, by the assistant message whose tool_calls hold
\* its tool_call_id.
C10_ToolResultTravelsWithRequest ==
    pc = "provider" =>
        \A i \in 1..Len(sent) :
            sent[i].role = "tool" =>
                \E a \in 1..(i - 1) :
                    /\ sent[a].role = "assistant"
                    /\ \E c \in 1..Len(sent[a].tool_calls) :
                          sent[a].tool_calls[c].id = sent[i].tool_call_id

\* C11: between two resets the conversation only grows by appending: a
\* step that is not a reset leaves every message already in the
\* conversation at its index with its role, content, tool_call_id and
\* tool_calls; in particular no provider call changes a stored content.
C11_ConversationOnlyAppends ==
    [][ ~(pc = "idle" /\ pc' = "idle")
          => /\ Len(messages') >= Len(messages)
             /\ \A i \in 1..Len(messages) : messages'[i] = messages[i] ]_vars

\* the tool calls of the first n responses of the turn, in order
RECURSIVE CallsOfRounds(_, _)
CallsOfRounds(resps, n) ==
    IF n = 0 THEN <<>> ELSE CallsOfRounds(resps, n - 1) \o resps[n].tool_calls

\* the number of calls of the turn that have been handled
HandledCalls ==
    IF pc = "tools"
    THEN Len(CallsOfRounds(responses, iteration - 1)) + tool_index - 1
    ELSE Len(CallsOfRounds(responses, iteration))

\* C12: within a turn the events of the tool calls are strictly
\* sequential: for each call, in the order of the responses and of their
\* calls, on_tool_call, then the execution, then on_tool_result carrying
\* the result of that execution, all before the on_tool_call of the next
\* call; nothing else happens in between.
C12_EventsSequential ==
    outcome \in {"running", "returned"} =>
        LET calls == CallsOfRounds(responses, iteration)
        IN /\ Len(events) = 3 * HandledCalls
           /\ \A n \in 1..HandledCalls :
                 LET c == calls[n]
                     result == Execute(tools, c.name, StrArg(c.arguments)).value
                 IN /\ events[3 * n - 2] =
                          [type |-> "on_tool_call", name |-> c.name, arg |-> c.arguments]
                    /\ events[3 * n - 1] =
                          [type |-> "execute", name |-> c.name, arg |-> c.arguments]
                    /\ events[3 * n] =
                          [type |-> "on_tool_result", name |-> c.name, arg |-> result]

C12_Witness ==
    /\ pc = "tools"
    /\ iteration = 2
    /\ Len(response.tool_calls) = 3
    /\ tool_index = 3
    /\ Len(events) > 6

\* C13: ToolRegistry.execute reports each failure cause with its own
\* string: an unknown tool gives the 'tool does not exist' string and no
\* tool runs; an arguments string that does not parse gives the 'parameter
\* parse failure' string and no tool runs; an exception raised by the
\* tool's execute gives the 'tool execution failure' string with the
\* exception's message, whatever the type of the exception.  Stated of
\* every step that is a call of execute (the registry stays as it is).
C13_FailureCauseHasOwnString ==
    [][ (tools' = tools /\ executing' = executing) =>
          /\ call_stage' = "lookup" =>
                call_result' = Return(NoToolPrefix \o call_name' \o NoToolSuffix)
          /\ call_stage' = "parse" =>
                call_result' = Return(ParseFailedPrefix \o JsonLoads(call_args'.text).msg)
          /\ (/\ call_stage' = "call"
              /\ ExecuteTry(tools[call_name'], call_args').kind = "raise") =>
                call_result' = Return(ExecFailedPrefix
                                        \o ExecuteTry(tools[call_name'], call_args').value)
      ]_vars

\* the call fails: the tool is unknown, the arguments do not parse, or
\* tool.execute raises
FailingCall(c) ==
    \/ ExecuteStage(tools, c.name, StrArg(c.arguments)) # "call"
    \/ ExecuteTry(tools[c.name], StrArg(c.arguments)).kind = "raise"

\* the tool message chat owes to a call
OwedToolMessage(c) ==
    Message("tool", Execute(tools, c.name, StrArg(c.arguments)).value, c.name, c.id, <<>>)

\* C14: a tool call that fails inside a turn never fails the turn: the
\* only exception that leaves chat is the provider's; every call handled so
\* far, failing or not, has exactly one tool message collected, with the
\* text execute returned and the id of the call; and once the batch is
\* done these messages end the conversation in call order, the calls after
\* a failing one included, and the turn goes on to the next provider call.
C14_FailingCallDoesNotFailTurn ==
    /\ outcome = "raised" => error = ProviderError
    /\ pc = "tools" =>
          /\ outcome = "running"
          /\ Len(tool_messages) = tool_index - 1
          /\ \A i \in 1..(tool_index - 1) :
                tool_messages[i] = OwedToolMessage(response.tool_calls[i])
    /\ (pc \in {"request", "provider"} /\ iteration >= 1) =>
          LET calls == response.tool_calls
              n == Len(calls)
          IN /\ outcome = "running"
             /\ requests = IF pc = "request" THEN iteration ELSE iteration + 1
             /\ \A i \in 1..n :
                   messages[Len(messages) - n + i] = OwedToolMessage(calls[i])
             /\ messages[Len(messages) - n].tool_calls = calls

C14_Witness ==
    /\ pc = "provider"
    /\ iteration = 1
    /\ Len(response.tool_calls) = 3
    /\ \A i \in 1..3 : FailingCall(response.tool_calls[i])
    /\ messages[Len(messages) - 2].content = NoToolPrefix \o "nosuch" \o NoToolSuffix
    /\ messages[Len(messages)].content =
           ExecFailedPrefix \o "strftime() argument 1 must be str, not int"

\* C15: the loop never retries a provider call: the provider is invoked
\* once per request built, 1 + the number of tool rounds and at most 6
\* times a turn; when a provider call fails the failure leaves chat: no
\* further provider call, no tool execution and no reply follow, and the
\* conversation ends with the message the failed request ended with.
C15_NoRetry ==
    /\ requests <= max_tool_iterations + 1
    /\ pc = "request" => requests = iteration /\ Len(responses) = iteration
    /\ pc = "provider" => requests = iteration + 1 /\ Len(responses) = iteration
    /\ pc = "tools" => requests = iteration /\ Len(responses) = iteration
    /\ outcome = "returned" =>
          requests = iteration + 1 /\ Len(responses) = requests
    /\ outcome = "raised" =>
          /\ pc = "idle"
          /\ error = ProviderError
          /\ requests = iteration + 1
          /\ Len(responses) = requests - 1
          /\ Len(events) = 3 * Len(CallsOfRounds(responses, iteration))
          /\ reply = NoneValue
          /\ messages[Len(messages)].role \in {"user", "tool"}
          /\ Len(messages) = base + 1 + iteration
                               + Len(CallsOfRounds(responses, iteration))

C15_Witness ==
    /\ outcome = "raised"
    /\ iteration = 2
    /\ requests = 3
    /\ Len(events) = 12

\* the provider a call of LLMManager.chat by this agent resolves to
RequestedProvider ==
    IF llm_provider = NoneValue THEN DefaultLLMProvider ELSE llm_provider

\* C16: when the provider the agent asks for (or the default one) has no
\* configuration and no cached client, get_client raises an error that
\* names the provider; the error leaves chat, which returns no reply, and
\* the cache is left as it was.  When the provider has a configuration,
\* also one registered after such a failure, the call goes through and the
\* client of the provider's class is cached.
C16_MissingConfigFailsCleanly ==
    [][ (pc = "request" /\ pc' # "request") =>
          LET p == RequestedProvider
          IN IF p \in DOMAIN clients \/ p \in DOMAIN llm_configs
             THEN /\ pc' = "provider"
                  /\ outcome' = "running"
                  /\ DOMAIN clients' = DOMAIN clients \cup {p}
                  /\ clients'[p] = CreateClient(p)
             ELSE /\ pc' = "idle"
                  /\ outcome' = "raised"
                  /\ error' = NoConfigPrefix \o p \o NoConfigSuffix
                  /\ reply' = NoneValue
                  /\ clients' = clients
      ]_vars

\* a turn that failed for want of a configuration, then the configuration
\* registered and the next turn at its provider call
C16_Witness ==
    /\ llm_provider = "anthropic"
    /\ pc = "provider"
    /\ Len(messages) = 3
    /\ messages[2].role = "user"
    /\ messages[3].role = "user"
    /\ DOMAIN clients = {"anthropic"}
    /\ error = NoneValue

\* C17: when reset_conversation is called while a turn is suspended, the
\* result in flight is discarded: as long as the abandoned turn runs, no
\* assistant or tool message of it is appended, and the conversation stays
\* the single system message.
C17_ResetDiscardsTurnInFlight ==
    outcome = "abandoned" => messages = <<SystemMessage(system_prompt)>>

\* the call of chat gave no image_path and its text holds an image marker
MarkerInText == ~Truthy(chat_image) /\ Search(chat_text, 1) # 0

\* the tokens of the text once every match is removed and the ends stripped
CleanTokens == Strip(Sub(chat_text, 1))

\* the user message of the turn, while its first request is being made
BuiltUserMessage == messages[base + 1]

\* the content the claim expects when the marker names the existing file p
StructuredFor(p) ==
    (IF Join(CleanTokens) # "" THEN <<TextPart(Join(CleanTokens))>> ELSE <<>>)
        \o <<ImagePart(p)>>

\* C18 as stated: with multimodal enabled, a text with an image marker
\* yields, when the file exists, structured content: a text part (only if
\* the stripped text is non-empty, and holding no marker) and then one
\* image part referencing the path; when the file does not exist, plain
\* text ending with a warning that names the path; the turn never fails.
C18_MarkerYieldsImageOrWarning ==
    /\ outcome # "raised"
    /\ (pc = "request" /\ enable_multimodal /\ MarkerInText) =>
          LET p == ParseImagePath(chat_text).path
              m == BuiltUserMessage
          IN IF p \in ExistingFiles
             THEN /\ m.content_type = "list"
                  /\ m.content = StructuredFor(p)
                  /\ Search(CleanTokens, 1) = 0
             ELSE /\ m.content_type = "str"
                  /\ m.content = Join(CleanTokens) \o MissingImagePrefix \o p
                                     \o MissingImageSuffix

\* C18, amended: the same for a marker whose path is not blank, the text
\* part being the text left when every match of the marker is removed in
\* one pass and the ends are stripped; a marker whose path is blank is
\* removed and the content is that plain text, with no warning.
C18_NonBlankMarkerYieldsImageOrWarning ==
    /\ outcome # "raised"
    /\ (pc = "request" /\ enable_multimodal /\ MarkerInText) =>
          LET p == ParseImagePath(chat_text).path
              m == BuiltUserMessage
          IN IF p = ""
             THEN m.content_type = "str" /\ m.content = Join(CleanTokens)
             ELSE IF p \in ExistingFiles
             THEN /\ m.content_type = "list"
                  /\ m.content = StructuredFor(p)
             ELSE /\ m.content_type = "str"
                  /\ m.content = Join(CleanTokens) \o MissingImagePrefix \o p
                                     \o MissingImageSuffix

C18_Witness ==
    /\ pc = "request"
    /\ enable_multimodal
    /\ MarkerInText
    /\ BuiltUserMessage.content_type = "list"
    /\ BuiltUserMessage.content =
           <<TextPart("look  please"), ImagePart(CatPng)>>

\* the text a content holds: the str less a warning, or the text part
StoredTextIs(m, text, path) ==
    IF m.content_type = "str"
    THEN m.content \in {text, text \o MissingImagePrefix \o path \o MissingImageSuffix}
    ELSE IF text = ""
    THEN \A j \in 1..Len(m.content) : m.content[j].type # "text"
    ELSE m.content[1] = TextPart(text)

\* C19: whenever the text given to chat holds an image marker, the marker
\* is stripped from the text kept in the user message and from the text
\* used for memory recall and extraction (chat's user_input), with
\* multimodal content enabled or not and with or without an image_path
\* argument.
C19_MarkerStrippedEverywhere ==
    (pc = "request" /\ iteration = 0 /\ Search(chat_text, 1) # 0) =>
        /\ user_input = Join(CleanTokens)
        /\ StoredTextIs(BuiltUserMessage, Join(CleanTokens),
                        IF Truthy(chat_image) THEN chat_image
                        ELSE ParseImagePath(chat_text).path)

\* the position of an item in the store
PositionOf(item) == CHOOSE k \in 1..Len(memories) : memories[k].id = item.id

\* C20: recall(query, top_k) returns at most top_k items, items of the
\* store that match the query, none twice, in order of non-increasing
\* relevance (score times importance); items of equal relevance appear in
\* the order in which they were inserted into the store.
C20_RecallOrdered ==
    /\ Len(recall_result) <= recall_top_k
    /\ \A i \in 1..Len(recall_result) :
          /\ \E k \in 1..Len(memories) : memories[k] = recall_result[i]
          /\ Score(recall_result[i], recall_query) > 0
    /\ \A i, j \in 1..Len(recall_result) :
          i < j =>
            /\ Relevance(recall_result[i], recall_query)
                  >= Relevance(recall_result[j], recall_query)
            /\ Relevance(recall_result[i], recall_query)
                  = Relevance(recall_result[j], recall_query)
                => PositionOf(recall_result[i]) < PositionOf(recall_result[j])

\* a recall that returned two items with different scores and the same
\* relevance, in the order of the store
C20_Witness ==
    /\ Len(recall_result) = 2
    /\ Len(memories) = 2
    /\ Score(recall_result[1], recall_query) # Score(recall_result[2], recall_query)
    /\ Relevance(recall_result[1], recall_query)
          = Relevance(recall_result[2], recall_query)
    /\ recall_result = memories

\* C21: when the memory context of the turn is the empty string, the system
\* message of every provider request of the turn is exactly the base system
\* prompt and the turn proceeds normally; when it is a non-empty block, the
\* system message is the base prompt followed by a blank line and that
\* block, the same in every request of the turn.
C21_SystemMessageOfRequests ==
    sent # <<>> =>
        /\ sent[1].role = "system"
        /\ sent[1].content_type = "str"
        /\ memory_context = "" => sent[1].content = system_prompt
        /\ memory_context # "" =>
              sent[1].content = system_prompt \o "\n\n" \o memory_context
        /\ \A i \in 2..Len(sent) : sent[i].role # "system"

\* a turn with an empty memory context that made two requests and returned
C21_Witness ==
    /\ memory_context = ""
    /\ requests >= 2
    /\ outcome = "returned"
    /\ sent[1].content = system_prompt

\* C22: a call of format_memories_for_context returns the empty string
\* exactly when no item of the store has a relevance above zero for the
\* query; otherwise it returns the header followed by one line per item
\* returned, tagged with the kind of the item, and every item listed has a
\* relevance above zero.
C22_BlockListsRelevantItems ==
    [][format_vars' # format_vars =>
         LET listed == RecallMemories(memories', format_query', DefaultMaxItems)
         IN /\ format_result' = ""
                  <=> \A k \in 1..Len(memories') :
                          Relevance(memories'[k], format_query') <= 0
            /\ format_result' # "" =>
                  /\ format_result' = JoinLines(MemoriesHeader, listed)
                  /\ \A i \in 1..Len(listed) :
                        Relevance(listed[i], format_query') > 0]_vars

\* the (tag, content) pairs of an extracted_info whose tag is a memory type
RECURSIVE RecognizedFragments(_)
RecognizedFragments(info) ==
    IF info = <<>> THEN <<>>
    ELSE (IF Head(info).tag \in MemoryTypeValues
          THEN [i \in 1..Len(Head(info).contents) |->
                   [tag |-> Head(info).tag, content |-> Head(info).contents[i]]]
          ELSE <<>>) \o RecognizedFragments(Tail(info))

\* C30: a call of extract_and_save_memory persists one new item for each
\* fragment listed under a recognized tag, in order, and nothing for the
\* fragments under an unrecognized tag; an unrecognized tag neither raises
\* nor stops the tags after it, so the list returned has as many items as
\* there are fragments under recognized tags.
C30_OneItemPerRecognizedFragment ==
    [][(extract_vars' # extract_vars \/ generated' # generated) =>
         LET frs == RecognizedFragments(extract_info')
         IN /\ Len(extract_result') = Len(frs)
            /\ \A i \in 1..Len(frs) :
                  /\ extract_result'[i].content = frs[i].content
                  /\ extract_result'[i].memory_type = frs[i].tag
                  /\ extract_result'[i].importance = ExtractedImportance
            /\ memories' = memories \o extract_result'
            /\ memory_file' = IF frs = <<>> THEN memory_file ELSE memories'
            /\ \A i, j \in 1..Len(frs) :
                  i # j => extract_result'[i].id # extract_result'[j].id]_vars

\* a call with an unrecognized tag before a recognized one that has two
\* fragments: the two were saved
C30_Witness ==
    /\ Len(extract_info) = 2
    /\ extract_info[1].tag \notin MemoryTypeValues
    /\ extract_info[1].contents # <<>>
    /\ Len(extract_result) = 2
    /\ \A i \in 1..2 : \E k \in 1..Len(memories) : memories[k] = extract_result[i]

\* C27: the memory item ids generated in one process are pairwise distinct,
\* the ids generated by two managers within the same second included.
C27_GeneratedIdsDistinct ==
    \A i, j \in 1..Len(generated) : i # j => generated[i] # generated[j]

\* the access count the store holds for the item of an id
AccessCountIn(cache, memory_id) ==
    cache[CHOOSE k \in 1..Len(cache) : cache[k].id = memory_id].access_count

\* C28: every retrieval of an item increments its access_count by one, the
\* retrieval by id (get) and the retrieval of each item that a recall
\* returns, and no access_count ever decreases.
C28_RetrievalCounts ==
    [][/\ \A k \in 1..Len(memories) :
             memories'[k].access_count >= memories[k].access_count
       /\ (get_vars' # get_vars /\ get_result' # <<>>) =>
             AccessCountIn(memories', get_id')
                 = AccessCountIn(memories, get_id') + 1
       /\ recall_vars' # recall_vars =>
             \A i \in 1..Len(recall_result') :
                 AccessCountIn(memories', recall_result'[i].id)
                     = AccessCountIn(memories, recall_result'[i].id) + 1]_vars

\* C23: the outcome of memory extraction never fails a turn: in the step
\* that appends the final assistant message, chat returns that reply,
\* whether the extraction finds no trigger phrase, saves fragments, or the
\* save operation of the store fails.
C23_ExtractionNeverFailsTurn ==
    [][(/\ pc = "provider"
        /\ Len(messages') = Len(messages) + 1
        /\ messages'[Len(messages')].role = "assistant"
        /\ messages'[Len(messages')].tool_calls = <<>>)
       => /\ outcome' = "returned"
          /\ reply' = messages'[Len(messages')].content]_vars

\* the ids of the items of a store
IdsOf(cache) == {cache[k].id : k \in 1..Len(cache)}

\* C29: a turn of chat only reads the store and adds items to it: every
\* item that was in the store is still there with its content, kind and
\* importance, and each fragment the turn saves gets an id that was not in
\* the store before.
C29_TurnOnlyAddsItems ==
    [][/\ \A k \in 1..Len(memories) :
             \E j \in 1..Len(memories') :
                 /\ memories'[j].id = memories[k].id
                 /\ memories'[j].content = memories[k].content
                 /\ memories'[j].memory_type = memories[k].memory_type
                 /\ memories'[j].importance = memories[k].importance
       /\ \A i \in (Len(generated) + 1)..Len(generated') :
             generated'[i] \notin IdsOf(memories)]_vars

\* the names asked for and the names of the tools ever registered
RegistryNames ==
    CallNames \cup {ToolName(tool) : tool \in NamedTools \cup SearchTools \cup MultimodalTools}

\* the tool of the most recent register under the name that no later
\* unregister of the name or clear followed, in the history calls
RECURSIVE MostRecentRegister(_, _)
MostRecentRegister(calls, name) ==
    IF calls = <<>> THEN NoneValue
    ELSE LET last == calls[Len(calls)]
         IN CASE last.op = "clear" -> NoneValue
              [] last.op = "unregister" /\ last.name = name -> NoneValue
              [] last.op = "register" /\ last.name = name -> last.tool
              [] OTHER -> MostRecentRegister(SubSeq(calls, 1, Len(calls) - 1), name)

\* what execute returns when it runs the tool (None: no tool) on arguments
ExecuteWith(tool, name, arguments) ==
    IF tool = NoneValue
    THEN Return(NoToolPrefix \o name \o NoToolSuffix)
    ELSE ExecuteExcept(ExecuteTry(tool, arguments))

\* C24: under any order of register, unregister and clear the registry
\* holds, for every name, exactly the tool of the most recent register
\* under that name that no unregister of the name or clear followed (none
\* if there is no such register), and every get and every execute looks
\* up that tool: a register under a name already taken replaces the tool.
\* An execute that waits in its tool ends with the tool it looked up when
\* it was called
C24_LastRegisterWins ==
    [][/\ \A name \in RegistryNames :
            Get(tools', name) = MostRecentRegister(registry_calls', name)
       /\ DOMAIN tools' \subseteq RegistryNames
       /\ (got_name' # got_name \/ got_tool' # got_tool)
             => got_tool' = MostRecentRegister(registry_calls, got_name')
       /\ (/\ executing' = executing
           /\ (call_name' # call_name \/ call_args' # call_args
                  \/ call_result' # call_result))
             => call_result' = ExecuteWith(MostRecentRegister(registry_calls, call_name'),
                                           call_name', call_args')
       /\ Len(executing') > Len(executing)
             => LET c == executing'[Len(executing')]
                IN c.tool = MostRecentRegister(registry_calls, c.name)
       /\ Len(executing') < Len(executing)
             => \E i \in 1..Len(executing) :
                   /\ call_name' = executing[i].name
                   /\ call_args' = executing[i].arguments
                   /\ call_result' = ExecuteWith(executing[i].tool, call_name', call_args')]_vars

\* the calculator's name was registered again with another tool, and both
\* get and execute were then served by that tool
C24_Witness ==
    /\ \E i, j \in 1..Len(registry_calls) :
          /\ i < j
          /\ registry_calls[i] = RegisterCall("CalculatorTool")
          /\ registry_calls[j] = RegisterCall(FunctionCalculator)
          /\ \A k \in (i + 1)..(j - 1) : registry_calls[k].op = "register"
    /\ Get(tools, "calculator") = FunctionCalculator
    /\ got_name = "calculator"
    /\ got_tool = FunctionCalculator
    /\ call_name = "calculator"
    /\ call_result = ExecuteWith(FunctionCalculator, "calculator", call_args)
    /\ call_result # ExecuteWith("CalculatorTool", "calculator", call_args)

\* C25: whichever client serves the agent, no message handed to the
\* transport holds an image part whose url is still a local path: the path
\* was replaced by the inline encoding of the file before the request left
C25_LocalImagesInlinedByEveryClient ==
    pc = "provider"
        => LocalImageParts(OnTheWire(GetClient(clients, llm_configs, llm_provider).result.value,
                                     sent)) = {}

\* the messages of a conversation after its system message
Conversation(msgs) == {msgs[i] : i \in 2..Len(msgs)}

\* the conversation of the running Agent after its request has gone to its
\* client, had no other Agent of the process ever asked for a client
MessagesAlone ==
    LET got == GetClient(<<>>, llm_configs, llm_provider)
    IN IF got.result.kind = "raise" \/ got.result.value # "OpenAIClient"
       THEN messages
       ELSE SharedWithRequest(messages, sent, FirstFailure(sent))

\* C26: the turns of two Agents interleaved at their suspension points do
\* not interfere.  A stretch of one Agent's turn leaves the other Agent's
\* conversation and turn as they were; resuming an Agent finds its
\* conversation as it left it; handing the request to the client changes
\* the conversation exactly as it would had the Agent run alone; the tools
\* registered stay the same; and no message of one conversation is ever a
\* message of the other.
C26_AgentsDoNotInterfere ==
    [][/\ (suspended # <<>> /\ running' = running) => suspended' = suspended
       /\ running' # running
             => /\ messages' = suspended[1].messages
                /\ suspended'[1].messages = messages
       /\ (running' = running /\ pc = "request") => messages' = MessagesAlone
       /\ tools' = tools
       /\ suspended' # <<>>
             => Conversation(messages') \cap Conversation(suspended'[1].messages) = {}]_vars

\* both turns are in flight, each after a tool round of its own, and both
\* clients are cached; the conversation of the Agent on the OpenAI client
\* holds the inlined image, that of the Agent on the Anthropic client the path
C26_Witness ==
    /\ suspended # <<>>
    /\ pc = "provider"
    /\ iteration = 1
    /\ suspended[1].pc = "provider"
    /\ suspended[1].iteration = 1
    /\ DOMAIN clients = ClientProviders
    /\ \E m \in Conversation(messages) \cup Conversation(suspended[1].messages) :
          m.role = "user" /\ LocalImageParts(<<m>>) # {}
    /\ \E m \in Conversation(messages) \cup Conversation(suspended[1].messages) :
          m.role = "user" /\ m.content_type # "str" /\ LocalImageParts(<<m>>) = {}

\* the message at k asked for tools and is followed by exactly as many
\* tool messages as it carries calls
FollowedByItsToolMessages(msgs, k) ==
    LET n == Len(msgs[k].tool_calls)
    IN /\ k + n <= Len(msgs)
       /\ \A i \in 1..n : msgs[k + i].role = "tool"
       /\ k + n < Len(msgs) => msgs[k + n + 1].role # "tool"

\* C31: at every provider call of a turn after the first, every assistant
\* message of the conversation that carries tool calls is followed by
\* exactly as many tool messages as it has calls; while a batch is being
\* executed its assistant message is already the last message of the
\* conversation, and no provider call is in flight.
C31_ToolRoundsCompleteAtProviderCall ==
    /\ (pc = "provider" /\ requests >= 2)
          => \A k \in 1..Len(messages) :
                IsToolRequest(messages[k]) => FollowedByItsToolMessages(messages, k)
    /\ pc = "tools"
          => /\ messages[Len(messages)] = AssistantToolMessage(response)
             /\ requests = Len(responses)
             /\ Len(tool_messages) < Len(response.tool_calls)

\* the third provider call of a turn: a batch of three calls and a batch of
\* one are both in the conversation, each with its tool messages
C31_Witness ==
    /\ pc = "provider"
    /\ requests = 3
    /\ \E k, l \in 1..Len(messages) :
          /\ k < l
          /\ Len(messages[k].tool_calls) = 3
          /\ Len(messages[l].tool_calls) = 1
          /\ FollowedByItsToolMessages(messages, k)
          /\ FollowedByItsToolMessages(messages, l)

\* C32: in every state of the conversation the messages are well-formed
\* by role: only a tool message has a tool_call_id or a name; only an
\* assistant message has tool calls, and such a message is one that asked
\* for a batch (the batch is running or its tool messages follow); the
\* assistant message that ends a returned turn has no tool calls; and the
\* system message is the first message and no other.
C32_MessagesWellFormedByRole ==
    /\ \A k \in 1..Len(messages) :
          LET m == messages[k]
          IN /\ (m.tool_call_id # NoneValue \/ m.name # NoneValue) => m.role = "tool"
             /\ m.role = "tool" => (m.tool_call_id # NoneValue /\ m.tool_calls = <<>>)
             /\ m.tool_calls # <<>>
                   => /\ m.role = "assistant"
                      /\ \/ k = Len(messages) /\ pc = "tools"
                         \/ k < Len(messages) /\ messages[k + 1].role = "tool"
             /\ m.role = "system" <=> k = 1
             /\ m.role \in {"system", "user", "assistant", "tool"}
    /\ outcome = "returned"
          => /\ messages[Len(messages)].role = "assistant"
             /\ messages[Len(messages)].tool_calls = <<>>
             /\ messages[Len(messages)].content = reply

\* a turn returned at the ceiling: its last response still asked for tools,
\* and the message that ends the turn carries none
C32_Witness ==
    /\ outcome = "returned"
    /\ iteration = max_tool_iterations
    /\ responses[Len(responses)].tool_calls # <<>>
    /\ messages[Len(messages)].tool_calls = <<>>
    /\ messages[Len(messages) - 1].role = "tool"
    /\ \E k \in 1..Len(messages) : messages[k].tool_calls # <<>>

\* C33: LLMManager keeps at most one client per provider.  No provider has
\* a client constructed twice and the cache holds exactly the clients
\* constructed, one per provider, so the clients of different providers are
\* different objects; a get_client for a provider without a cached client
\* constructs one and caches it, a get_client for a provider with a cached
\* client constructs nothing, and no step replaces or drops a cached client.
C33_OneClientPerProvider ==
    [][/\ \A i, j \in 1..Len(constructed') : constructed'[i] = constructed'[j] => i = j
       /\ DOMAIN clients' = {constructed'[i] : i \in 1..Len(constructed')}
       /\ \A p \in DOMAIN clients : p \in DOMAIN clients' /\ clients'[p] = clients[p]
       /\ (pc = "request" /\ running' = running /\ ProviderKey \in DOMAIN clients)
             => constructed' = constructed
       /\ (pc = "request" /\ running' = running /\ pc' = "provider"
             /\ ProviderKey \notin DOMAIN clients)
             => /\ constructed' = Append(constructed, ProviderKey)
                /\ clients'[ProviderKey] = CreateClient(llm_configs[ProviderKey])]_vars

\* both Agents have called their provider twice: two clients were
\* constructed, one for each provider, and two are cached
C33_Witness ==
    /\ Len(constructed) = 2
    /\ DOMAIN clients = ClientProviders
    /\ clients["openai"] # clients["anthropic"]
    /\ suspended # <<>>
    /\ requests = 2
    /\ suspended[1].requests = 2

\* the declarations a turn that starts now is to hand to every provider call
DeclarationsAtStart ==
    IF enable_tools /\ DOMAIN tools # {}
    THEN {ToOpenAIFormat(tools[n]) : n \in DOMAIN tools}
    ELSE {}

\* C34: every provider call of a turn receives the same tool declarations.
\* The turn takes them when it starts: the definitions of all tools then
\* registered if tool calling is enabled and the registry is not empty,
\* none otherwise; no later step of the turn changes them, whatever happens
\* to the registry; and every provider call is handed exactly them.
C34_SameDeclarationsEveryCall ==
    [][/\ (pc = "idle" /\ pc' = "request") => tools_arg' = DeclarationsAtStart
       /\ ~(pc = "idle" /\ pc' = "request") => tools_arg' = tools_arg
       /\ (pc = "request" /\ pc' = "provider") => sent_tools' = tools_arg]_vars

\* the second provider call of a turn is in flight with the declarations of
\* the turn's start, while the registry now holds other tools
C34_Witness ==
    /\ pc = "provider"
    /\ requests = 2
    /\ sent_tools # {}
    /\ sent_tools = tools_arg
    /\ sent_tools # GetAllDefinitions(tools)
    /\ DOMAIN tools # {}

\* C37: an Agent constructed with tool calling disabled never executes a
\* tool: its turns make no execute call and no on_tool_call notification,
\* append no assistant message with tool calls and no tool message, and
\* make exactly one provider call, whatever the provider answers.
C37_DisabledAgentExecutesNoTool ==
    ~enable_tools
        => /\ events = <<>>
           /\ pc # "tools"
           /\ requests <= 1
           /\ \A k \in 1..Len(messages) :
                 messages[k].role # "tool" /\ messages[k].tool_calls = <<>>

\* C35: with a history limit of at least 1, every request of a turn that is
\* handed to the provider holds the user message the turn began with, the
\* first request and every request after a tool round.
C35_RequestHoldsUserMessage ==
    (pc = "provider" /\ history_limit >= 1)
        => \E i \in 1..Len(sent) :
              /\ sent[i].role = "user"
              /\ sent[i].content = BuiltUserMessage.content

\* the last turn ended in a failure of its provider call
ProviderCallFailed == pc = "idle" /\ outcome = "raised" /\ error = ProviderError

\* C36: a provider call that fails in the middle of a turn leaves the
\* conversation as it was: the turn has appended its user message and, for
\* every response received, the assistant message and the tool messages of
\* a completed round, and no final assistant message; nothing is returned
\* and nothing is rolled back, so the last message is a user or a tool
\* message and the next turn appends its user message right after it.
C36_ProviderFailureKeepsMessages ==
    [][/\ (pc = "provider" /\ outcome' = "raised")
             => /\ messages' = messages
                /\ pc' = "idle"
                /\ reply' = NoneValue
       /\ ProviderCallFailed
             => LET roles == <<"user">> \o RoundsRoles(responses, Len(responses))
                IN /\ Len(TurnMessages) = Len(roles)
                   /\ \A j \in 1..Len(roles) : TurnMessages[j].role = roles[j]
                   /\ TurnMessages[1].content = user_input
                   /\ messages[Len(messages)].role \in {"user", "tool"}
       /\ (ProviderCallFailed /\ pc' = "request")
             => /\ SubSeq(messages', 1, Len(messages)) = messages
                /\ Len(messages') = Len(messages) + 1
                /\ messages'[Len(messages')].role = "user"
                /\ messages'[Len(messages)].role \in {"user", "tool"}]_vars

\* the provider failed after a round of three calls: the conversation ends
\* with the three tool messages
C36_Witness ==
    /\ ProviderCallFailed
    /\ Len(responses) = 1
    /\ Len(responses[1].tool_calls) = 3
    /\ Len(TurnMessages) = 5
    /\ messages[Len(messages)].role = "tool"

\* C38: with two stores open on the same path no saved item is lost: after
\* any interleaving of saves through the two, memories.json holds an item
\* under the id of every item saved through either of them.
C38_FileHoldsItemsOfBothStores ==
    IdsOf(memories) \cup IdsOf(peer_memories) \subseteq IdsOf(memory_file)

====
